---------------------------- MODULE Spec2Model ----------------------------
(***************************************************************************)
(* A model of the strftime package: ParseL (src/parse.go) and the two      *)
(* StrftimeL formatters of src/format.go (the minimal one, lines 18-123,   *)
(* and the one with GNU padding modifiers, lines 140-375).                 *)
(*                                                                         *)
(* Strings are sequences of one-character strings; cursors are 0-based as  *)
(* in the Go code, so the byte s[j] of the code is s[j+1] here.            *)
(* time.Time is modelled by its six wall-clock fields in a location        *)
(* without clock changes; time.Date normalises out-of-range fields as the  *)
(* Go library does.                                                        *)
(***************************************************************************)
EXTENDS Integers, Sequences, FiniteSets, TLC

(***************************************************************************)
(* Characters and decimal numbers                                          *)
(***************************************************************************)
DigitChars == <<"0", "1", "2", "3", "4", "5", "6", "7", "8", "9">>

IsDigit(c) == c \in {"0", "1", "2", "3", "4", "5", "6", "7", "8", "9"}

DigitVal(c) == CHOOSE d \in 0..9 : DigitChars[d + 1] = c

\* s[from:to] of Go: the bytes at 0-based positions from..to-1
Slice(str, from, to) == SubSeq(str, from + 1, to)

RECURSIVE DigitsValue(_)
DigitsValue(str) ==
    IF str = <<>> THEN 0
    ELSE 10 * DigitsValue(SubSeq(str, 1, Len(str) - 1)) + DigitVal(str[Len(str)])

AllDigits(str) == \A k \in 1..Len(str) : IsDigit(str[k])

\* strconv.Atoi: an optional sign, then one or more decimal digits
Atoi(str) ==
    IF str = <<>> THEN [ok |-> FALSE, val |-> 0]
    ELSE LET signed == str[1] \in {"+", "-"}
             body   == IF signed THEN Tail(str) ELSE str
         IN  IF body = <<>> \/ ~AllDigits(body)
             THEN [ok |-> FALSE, val |-> 0]
             ELSE [ok |-> TRUE,
                   val |-> IF str[1] = "-" THEN 0 - DigitsValue(body)
                           ELSE DigitsValue(body)]

RECURSIVE NatDigits(_)
NatDigits(n) ==
    IF n < 10 THEN <<DigitChars[n + 1]>>
    ELSE NatDigits(n \div 10) \o <<DigitChars[(n % 10) + 1]>>

\* strconv.Itoa
Itoa(n) == IF n < 0 THEN <<"-">> \o NatDigits(0 - n) ELSE NatDigits(n)

RECURSIVE Repeat(_, _)
Repeat(c, n) == IF n <= 0 THEN <<>> ELSE <<c>> \o Repeat(c, n - 1)

\* fmt.Sprintf("%0<width>d", n): zeros go between the sign and the digits
SprintfZero(n, width) ==
    IF n < 0
    THEN <<"-">> \o Repeat("0", width - 1 - Len(NatDigits(0 - n))) \o NatDigits(0 - n)
    ELSE Repeat("0", width - Len(NatDigits(n))) \o NatDigits(n)

\* fmt.Sprintf("%<width>d", n): spaces go before the sign
SprintfSpace(n, width) == Repeat(" ", width - Len(Itoa(n))) \o Itoa(n)

HasPrefixAt(str, pos, name) ==
    /\ Len(str) - pos >= Len(name)
    /\ Slice(str, pos, pos + Len(name)) = name

(***************************************************************************)
(* The calendar: time.Date                                                 *)
(***************************************************************************)
IsLeap(y) == y % 4 = 0 /\ (y % 100 # 0 \/ y % 400 = 0)

DaysIn(y, m) ==
    IF m = 2 THEN (IF IsLeap(y) THEN 29 ELSE 28)
    ELSE IF m \in {4, 6, 9, 11} THEN 30 ELSE 31

\* carries a day count outside 1..DaysIn into the month and the year
RECURSIVE NormDay(_, _, _)
NormDay(y, m, d) ==
    IF d > DaysIn(y, m)
    THEN (IF m = 12 THEN NormDay(y + 1, 1, d - DaysIn(y, m))
          ELSE NormDay(y, m + 1, d - DaysIn(y, m)))
    ELSE IF d < 1
    THEN (IF m = 1 THEN NormDay(y - 1, 12, d + DaysIn(y - 1, 12))
          ELSE NormDay(y, m - 1, d + DaysIn(y, m - 1)))
    ELSE [year |-> y, month |-> m, day |-> d]

\* time.Date(year, month, day, hour, min, sec, 0, loc): month overflows into the
\* year, then sec into min, min into hour, hour into day, day into month and year
Date(year, month, day, hour, min, sec) ==
    LET y1  == year + ((month - 1) \div 12)
        m1  == ((month - 1) % 12) + 1
        mi1 == min + (sec \div 60)
        h1  == hour + (mi1 \div 60)
        d1  == day + (h1 \div 24)
        ymd == NormDay(y1, m1, d1)
    IN  [year |-> ymd.year, month |-> ymd.month, day |-> ymd.day,
         hour |-> h1 % 24, minute |-> mi1 % 60, second |-> sec % 60]

(***************************************************************************)
(* Locale (src/locale.go)                                                  *)
(***************************************************************************)
DefaultLocale ==
    [WeekdaysFull |->
     <<<<"S", "u", "n", "d", "a", "y">>,
       <<"M", "o", "n", "d", "a", "y">>,
       <<"T", "u", "e", "s", "d", "a", "y">>,
       <<"W", "e", "d", "n", "e", "s", "d", "a", "y">>,
       <<"T", "h", "u", "r", "s", "d", "a", "y">>,
       <<"F", "r", "i", "d", "a", "y">>,
       <<"S", "a", "t", "u", "r", "d", "a", "y">>>>,
     WeekdaysAbbrev |->
     <<<<"S", "u", "n">>,
       <<"M", "o", "n">>,
       <<"T", "u", "e">>,
       <<"W", "e", "d">>,
       <<"T", "h", "u">>,
       <<"F", "r", "i">>,
       <<"S", "a", "t">>>>,
     MonthsFull |->
     <<<<"J", "a", "n", "u", "a", "r", "y">>,
       <<"F", "e", "b", "r", "u", "a", "r", "y">>,
       <<"M", "a", "r", "c", "h">>,
       <<"A", "p", "r", "i", "l">>,
       <<"M", "a", "y">>,
       <<"J", "u", "n", "e">>,
       <<"J", "u", "l", "y">>,
       <<"A", "u", "g", "u", "s", "t">>,
       <<"S", "e", "p", "t", "e", "m", "b", "e", "r">>,
       <<"O", "c", "t", "o", "b", "e", "r">>,
       <<"N", "o", "v", "e", "m", "b", "e", "r">>,
       <<"D", "e", "c", "e", "m", "b", "e", "r">>>>,
     MonthsAbbrev |->
     <<<<"J", "a", "n">>,
       <<"F", "e", "b">>,
       <<"M", "a", "r">>,
       <<"A", "p", "r">>,
       <<"M", "a", "y">>,
       <<"J", "u", "n">>,
       <<"J", "u", "l">>,
       <<"A", "u", "g">>,
       <<"S", "e", "p">>,
       <<"O", "c", "t">>,
       <<"N", "o", "v">>,
       <<"D", "e", "c">>>>,
     AM |-> <<"A", "M">>,
     PM |-> <<"P", "M">>]

\* A *Locale argument is the name of the Locale it points to: "nil", "default"
\* (the package variable DefaultLocale) or the name of a caller's Locale.
NilLocale == "nil"

\* a caller's Locale in which one month name is a prefix of a later one and
\* the AM marker is a prefix of the PM marker
CustomLocale ==
    [WeekdaysFull |-> <<<<"S", "o">>, <<"M", "o">>, <<"D", "i">>>>,
     WeekdaysAbbrev |-> <<<<"S">>, <<"M">>>>,
     MonthsFull |-> <<<<"M", "a">>, <<"M", "a", "i">>, <<"J", "u", "n", "i">>>>,
     MonthsAbbrev |-> <<<<"M">>, <<"M", "i">>, <<"J">>>>,
     AM |-> <<"a">>,
     PM |-> <<"a", "p">>]

LocaleAt(ptr) == IF ptr = "custom" THEN CustomLocale ELSE DefaultLocale

\* if locale == nil { locale = DefaultLocale }
LocaleOrDefault(ptr) == IF ptr = NilLocale THEN DefaultLocale ELSE LocaleAt(ptr)

(***************************************************************************)
(* ParseL (src/parse.go): the helpers                                      *)
(***************************************************************************)
\* a read that moves the cursor past the field also when the read fails
parseFixedIntSkip(str, pos, length) ==
    IF pos + length > Len(str)
    THEN [val |-> 0, pos |-> pos + length, ok |-> FALSE]
    ELSE LET a == Atoi(Slice(str, pos, pos + length))
         IN  IF a.ok THEN [val |-> a.val, pos |-> pos + length, ok |-> TRUE]
             ELSE [val |-> 0, pos |-> pos + length, ok |-> FALSE]

\* parseFixedInt(s, pos, length): the value, the new position, and whether err == nil
parseFixedInt(str, pos, length) ==
    IF pos + length > Len(str)
    THEN [val |-> 0, pos |-> pos, ok |-> FALSE]
    ELSE LET a == Atoi(Slice(str, pos, pos + length))
         IN  IF a.ok THEN [val |-> a.val, pos |-> pos + length, ok |-> TRUE]
             ELSE [val |-> 0, pos |-> pos, ok |-> FALSE]

\* the scan loop of parseIntVariable: the position after the run of at most
\* maxDigits digits that starts at pos
RECURSIVE DigitRunEnd(_, _, _, _)
DigitRunEnd(str, pos, count, maxDigits) ==
    IF pos < Len(str) /\ count < maxDigits /\ IsDigit(str[pos + 1])
    THEN DigitRunEnd(str, pos + 1, count + 1, maxDigits)
    ELSE pos

parseIntVariable(str, pos, minDigits, maxDigits) ==
    LET stop == DigitRunEnd(str, pos, 0, maxDigits)
    IN  IF stop - pos < minDigits
        THEN [val |-> 0, pos |-> pos, ok |-> FALSE]
        ELSE LET a == Atoi(Slice(str, pos, stop))
             IN  IF a.ok THEN [val |-> a.val, pos |-> stop, ok |-> TRUE]
                 ELSE [val |-> 0, pos |-> pos, ok |-> FALSE]

\* a pivot one value later: C7 has to tell it from PivotYear
PivotYearAt70(twoDigit) == IF twoDigit < 70 THEN 2000 + twoDigit ELSE 1900 + twoDigit

\* lines 105-109, 154-158: the two-digit year convention of %y and %D
PivotYear(twoDigit) == IF twoDigit < 69 THEN 2000 + twoDigit ELSE 1900 + twoDigit

\* a lookup that returns the highest matching index instead of the lowest
LastMatch(names, str, pos) ==
    LET found == {k \in 1..Len(names) : HasPrefixAt(str, pos, names[k])}
    IN  IF found = {} THEN -1 ELSE (CHOOSE k \in found : \A m \in found : m <= k) - 1

\* the 0-based index of the first name of the table that the input carries at
\* pos, or -1: the range loops of %B, %b, %h, %A, %a
RECURSIVE FirstMatchFrom(_, _, _, _)
FirstMatchFrom(names, str, pos, k) ==
    IF k > Len(names) THEN -1
    ELSE IF HasPrefixAt(str, pos, names[k]) THEN k - 1
    ELSE FirstMatchFrom(names, str, pos, k + 1)

FirstMatch(names, str, pos) == FirstMatchFrom(names, str, pos, 1)

NoTime == [year |-> 0, month |-> 0, day |-> 0, hour |-> 0, minute |-> 0, second |-> 0]

\* what a call has returned: nothing yet, a time, an error, or a run-time panic
NoReturn == [kind |-> "none", msg |-> "", pos |-> -1, time |-> NoTime]

ReturnTime(t) == [kind |-> "time", msg |-> "", pos |-> -1, time |-> t]

\* pos is the position the message carries, -1 when it carries none
ReturnError(msg, pos) == [kind |-> "error", msg |-> msg, pos |-> pos, time |-> NoTime]

Panic(msg) == [kind |-> "panic", msg |-> msg, pos |-> -1, time |-> NoTime]

\* defaults of a fixed epoch instead of the current moment: C4 has to tell it
\* from InitResult
InitResultEpoch(base) ==
    [year |-> 1970, month |-> 1, day |-> 1, hour |-> 0, minute |-> 0, second |-> 0,
     hour12 |-> FALSE, ampmSet |-> FALSE, isPM |-> FALSE]

\* defaults that also take the meridiem from the current moment: C18 has to
\* tell it from InitResult
InitResultMeridiem(base) ==
    [year |-> base.year, month |-> base.month, day |-> base.day,
     hour |-> base.hour, minute |-> base.minute, second |-> base.second,
     hour12 |-> FALSE, ampmSet |-> TRUE, isPM |-> base.hour >= 12]

\* lines 65-76: parseResult as ParseL initialises it from base := time.Now()
InitResult(base) ==
    [year |-> base.year, month |-> base.month, day |-> base.day,
     hour |-> base.hour, minute |-> base.minute, second |-> base.second,
     hour12 |-> FALSE, ampmSet |-> FALSE, isPM |-> FALSE]

(***************************************************************************)
(* ParseL: one iteration of the loop over the format string                *)
(*                                                                         *)
(* A run of ParseL is the record st: the cursors i and j, the parseResult, *)
(* pc ("loop" while the format is walked, "final" when it is exhausted,    *)
(* "done" once ParseL has returned or panicked), the return value ret, and *)
(* log, one entry per iteration: the conversion character ("literal" for a *)
(* literal, "" when the format ends inside the directive), the format      *)
(* cursor before, the input cursor before and after, and whether every     *)
(* field the directive read was read without error (the err that the code  *)
(* assigns to _). The code after the loop adds the entry "trailing".       *)
(***************************************************************************)
LogEntry(spec, at, from, to, ok) ==
    [spec |-> spec, i |-> at, from |-> from, to |-> to, ok |-> ok]

\* an iteration that goes on without moving the format cursor
ContinueInPlace(st, next, spec, res, pos, ok) ==
    [st EXCEPT !.i = st.i, !.j = pos, !.result = res,
               !.pc = IF st.i < st.flen THEN "loop" ELSE "final",
               !.log = Append(st.log, LogEntry(spec, st.i, st.j, pos, ok))]

\* the iteration ends and the loop goes on
Continue(st, next, spec, res, pos, ok) ==
    [st EXCEPT !.i = next, !.j = pos, !.result = res,
               !.pc = IF next < st.flen THEN "loop" ELSE "final",
               !.log = Append(st.log, LogEntry(spec, st.i, st.j, pos, ok))]

\* the iteration returns from ParseL
Halt(st, spec, r, pos) ==
    [st EXCEPT !.pc = "done", !.ret = r, !.j = pos,
               !.log = Append(st.log, LogEntry(spec, st.i, st.j, pos, FALSE))]

\* a scan that does not skip the '%' after the extension marker: C12 has to tell
\* it from Scan
ScanNoSkip(format, i) ==
    LET i1 == i + 1
    IN  IF i1 >= Len(format) THEN [kind |-> "end", spec |-> "", next |-> i1]
        ELSE IF format[i1 + 1] \in {"E", "O"}
        THEN LET i2 == i1 + 1
             IN  IF i2 >= Len(format) THEN [kind |-> "ext_end", spec |-> "", next |-> i2]
                 ELSE [kind |-> "spec", spec |-> format[i2 + 1], next |-> i2 + 1]
        ELSE [kind |-> "spec", spec |-> format[i1 + 1], next |-> i1 + 1]

\* lines 81-99: what follows the '%' at format[i]
Scan(format, i) ==
    LET i1 == i + 1
    IN  IF i1 >= Len(format) THEN [kind |-> "end", spec |-> "", next |-> i1]
        ELSE IF format[i1 + 1] \in {"E", "O"}
        THEN LET i2 == i1 + 1
                 i3 == IF i2 < Len(format) /\ format[i2 + 1] = "%" THEN i2 + 1 ELSE i2
             IN  IF i3 >= Len(format) THEN [kind |-> "ext_end", spec |-> "", next |-> i3]
                 ELSE [kind |-> "spec", spec |-> format[i3 + 1], next |-> i3 + 1]
        ELSE [kind |-> "spec", spec |-> format[i1 + 1], next |-> i1 + 1]

FixedSpecs == {"Y", "y", "m", "d", "H", "I", "M", "S"}

\* every numeric field read as two characters: C3 has to tell it from FixedWidth
FixedWidthTwo(spec) == IF spec = "Y" THEN 2 ELSE 2

FixedWidth(spec) == IF spec = "Y" THEN 4 ELSE 2

\* lines 101-114, 120-128: result.<field>, j, _ = parseFixedInt(s, j, width)
ParseFixed(st, next, spec, str) ==
    LET r   == parseFixedInt(str, st.j, FixedWidth(spec))
        res == CASE spec = "Y" -> [st.result EXCEPT !.year = r.val]
                 [] spec = "y" -> [st.result EXCEPT !.year = PivotYear(r.val)]
                 [] spec = "m" -> [st.result EXCEPT !.month = r.val]
                 [] spec = "d" -> [st.result EXCEPT !.day = r.val]
                 [] spec = "H" -> [st.result EXCEPT !.hour = r.val]
                 [] spec = "I" -> [st.result EXCEPT !.hour = r.val, !.hour12 = TRUE]
                 [] spec = "M" -> [st.result EXCEPT !.minute = r.val]
                 [] spec = "S" -> [st.result EXCEPT !.second = r.val]
    IN  Continue(st, next, spec, res, r.pos, r.ok)

\* lines 115-119: %e
ParseDayE(st, next, str) ==
    LET j1 == IF st.j < Len(str) /\ str[st.j + 1] = " " THEN st.j + 1 ELSE st.j
        r  == parseIntVariable(str, j1, 1, 2)
    IN  Continue(st, next, "e", [st.result EXCEPT !.day = r.val], r.pos, r.ok)

\* a %p that tries the PM marker before the AM marker
ParseAmPmPMFirst(st, next, str, loc) ==
    IF HasPrefixAt(str, st.j, loc.PM)
    THEN Continue(st, next, "p", [st.result EXCEPT !.ampmSet = TRUE, !.isPM = TRUE],
                  st.j + Len(loc.PM), TRUE)
    ELSE IF HasPrefixAt(str, st.j, loc.AM)
    THEN Continue(st, next, "p", [st.result EXCEPT !.ampmSet = TRUE, !.isPM = FALSE],
                  st.j + Len(loc.AM), TRUE)
    ELSE Halt(st, "p", ReturnError("expected AM/PM marker", st.j), st.j)

\* lines 129-140: %p
ParseAmPm(st, next, str, loc) ==
    IF HasPrefixAt(str, st.j, loc.AM)
    THEN Continue(st, next, "p", [st.result EXCEPT !.ampmSet = TRUE, !.isPM = FALSE],
                  st.j + Len(loc.AM), TRUE)
    ELSE IF HasPrefixAt(str, st.j, loc.PM)
    THEN Continue(st, next, "p", [st.result EXCEPT !.ampmSet = TRUE, !.isPM = TRUE],
                  st.j + Len(loc.PM), TRUE)
    ELSE Halt(st, "p", ReturnError("expected AM/PM marker", st.j), st.j)

\* a %D that reads the day before the month
ParseDDayFirst(st, next, str) ==
    LET d == parseFixedInt(str, st.j, 2)
    IN  IF d.pos >= Len(str) \/ str[d.pos + 1] # "/"
        THEN Halt(st, "D", ReturnError("expected '/' after month in %D", -1), d.pos)
        ELSE LET m == parseFixedInt(str, d.pos + 1, 2)
             IN  IF m.pos >= Len(str) \/ str[m.pos + 1] # "/"
                 THEN Halt(st, "D", ReturnError("expected '/' after day in %D", -1), m.pos)
                 ELSE LET y == parseFixedInt(str, m.pos + 1, 2)
                      IN  Continue(st, next, "D",
                                   [st.result EXCEPT !.month = m.val, !.day = d.val,
                                                     !.year = PivotYear(y.val)],
                                   y.pos, m.ok /\ d.ok /\ y.ok)

\* lines 141-159: %D
ParseD(st, next, str) ==
    LET m == parseFixedInt(str, st.j, 2)
    IN  IF m.pos >= Len(str) \/ str[m.pos + 1] # "/"
        THEN Halt(st, "D", ReturnError("expected '/' after month in %D", -1), m.pos)
        ELSE LET d == parseFixedInt(str, m.pos + 1, 2)
             IN  IF d.pos >= Len(str) \/ str[d.pos + 1] # "/"
                 THEN Halt(st, "D", ReturnError("expected '/' after day in %D", -1), d.pos)
                 ELSE LET y == parseFixedInt(str, d.pos + 1, 2)
                      IN  Continue(st, next, "D",
                                   [st.result EXCEPT !.month = m.val, !.day = d.val,
                                                     !.year = PivotYear(y.val)],
                                   y.pos, m.ok /\ d.ok /\ y.ok)

\* lines 160-171: %F
ParseF(st, next, str) ==
    LET y == parseFixedInt(str, st.j, 4)
    IN  IF y.pos >= Len(str) \/ str[y.pos + 1] # "-"
        THEN Halt(st, "F", ReturnError("expected '-' after year in %F", -1), y.pos)
        ELSE LET m == parseFixedInt(str, y.pos + 1, 2)
             IN  IF m.pos >= Len(str) \/ str[m.pos + 1] # "-"
                 THEN Halt(st, "F", ReturnError("expected '-' after month in %F", -1), m.pos)
                 ELSE LET d == parseFixedInt(str, m.pos + 1, 2)
                      IN  Continue(st, next, "F",
                                   [st.result EXCEPT !.year = y.val, !.month = m.val,
                                                     !.day = d.val],
                                   d.pos, y.ok /\ m.ok /\ d.ok)

\* lines 172-197: %B, %b, %h
ParseMonthName(st, next, spec, str, loc) ==
    LET names == IF spec = "B" THEN loc.MonthsFull ELSE loc.MonthsAbbrev
        iMonth == FirstMatch(names, str, st.j)
    IN  IF iMonth >= 0
        THEN Continue(st, next, spec, [st.result EXCEPT !.month = iMonth + 1],
                      st.j + Len(names[iMonth + 1]), TRUE)
        ELSE Halt(st, spec,
                  ReturnError(IF spec = "B" THEN "failed to parse full month name"
                              ELSE "failed to parse abbreviated month name", st.j), st.j)

\* a %A / %a that stores the matched weekday as the day of the month
ParseWeekdayNameStored(st, next, spec, str, loc) ==
    LET names == IF spec = "A" THEN loc.WeekdaysFull ELSE loc.WeekdaysAbbrev
        k == FirstMatch(names, str, st.j)
    IN  IF k >= 0
        THEN Continue(st, next, spec, [st.result EXCEPT !.day = k + 1],
                      st.j + Len(names[k + 1]), TRUE)
        ELSE Halt(st, spec,
                  ReturnError(IF spec = "A" THEN "failed to parse full weekday name"
                              ELSE "failed to parse abbreviated weekday name", st.j), st.j)

\* lines 198-221: %A, %a
ParseWeekdayName(st, next, spec, str, loc) ==
    LET names == IF spec = "A" THEN loc.WeekdaysFull ELSE loc.WeekdaysAbbrev
        k == FirstMatch(names, str, st.j)
    IN  IF k >= 0
        THEN Continue(st, next, spec, st.result, st.j + Len(names[k + 1]), TRUE)
        ELSE Halt(st, spec,
                  ReturnError(IF spec = "A" THEN "failed to parse full weekday name"
                              ELSE "failed to parse abbreviated weekday name", st.j), st.j)

\* lines 222-226: %%
ParsePercent(st, next, str) ==
    IF st.j >= Len(str) \/ str[st.j + 1] # "%"
    THEN Halt(st, "%", ReturnError("expected literal '%'", st.j), st.j)
    ELSE Continue(st, next, "%", st.result, st.j + 1, TRUE)

\* a default that skips the directive: C13 has to tell it from ParseUnsupported
ParseUnsupportedSkip(st, spec) == Continue(st, st.i + 2, spec, st.result, st.j, TRUE)

\* lines 227-229: default
ParseUnsupported(st, spec) ==
    Halt(st, spec, ReturnError("unsupported conversion specifier", -1), st.j)

\* lines 231-238: a literal character of the format. The error message is built
\* from s[j], which panics (index out of range) when j >= len(s).
ParseLiteral(st, format, str) ==
    IF st.j >= Len(str)
    THEN Halt(st, "literal", Panic("index out of range"), st.j)
    ELSE IF str[st.j + 1] # format[st.i + 1]
    THEN Halt(st, "literal", ReturnError("literal mismatch", st.j), st.j)
    ELSE Continue(st, st.i + 1, "literal", st.result, st.j + 1, TRUE)

\* which case of the loop body the directive at format[i] takes
Class(format, i) ==
    IF format[i + 1] # "%" THEN "literal"
    ELSE LET sc == Scan(format, i)
         IN  CASE sc.kind = "end" -> "incomplete"
               [] sc.kind = "ext_end" -> "incomplete"
               [] sc.spec \in FixedSpecs -> "fixed"
               [] sc.spec = "e" -> "day"
               [] sc.spec = "p" -> "ampm"
               [] sc.spec \in {"D", "F"} -> "composite"
               [] sc.spec \in {"B", "b", "h"} -> "month"
               [] sc.spec \in {"A", "a"} -> "weekday"
               [] sc.spec = "%" -> "percent"
               [] OTHER -> "unsupported"

\* one message for both ends: C9 has to tell it from ParseIncomplete
ParseIncompleteOneMessage(st, format) ==
    Halt(st, "", ReturnError("incomplete format specifier at end", -1), st.j)

\* lines 83-85, 93-95: the format ends inside a directive
ParseIncomplete(st, format) ==
    IF Scan(format, st.i).kind = "end"
    THEN Halt(st, "", ReturnError("incomplete format specifier at end", -1), st.j)
    ELSE Halt(st, "", ReturnError("incomplete format specifier after posix extension", -1),
              st.j)

\* lines 80-239: one iteration of the loop
ParseStep(st, format, str, loc) ==
    LET sc == Scan(format, st.i)
        class == Class(format, st.i)
    IN  CASE class = "literal" -> ParseLiteral(st, format, str)
          [] class = "incomplete" -> ParseIncomplete(st, format)
          [] class = "fixed" -> ParseFixed(st, sc.next, sc.spec, str)
          [] class = "day" -> ParseDayE(st, sc.next, str)
          [] class = "ampm" -> ParseAmPm(st, sc.next, str, loc)
          [] class = "composite" ->
                IF sc.spec = "D" THEN ParseD(st, sc.next, str)
                ELSE ParseF(st, sc.next, str)
          [] class = "month" -> ParseMonthName(st, sc.next, sc.spec, str, loc)
          [] class = "weekday" -> ParseWeekdayName(st, sc.next, sc.spec, str, loc)
          [] class = "percent" -> ParsePercent(st, sc.next, str)
          [] class = "unsupported" -> ParseUnsupported(st, sc.spec)

\* a skip of spaces only: C8 has to tell it from SkipTrailing
RECURSIVE SkipSpaces(_, _)
SkipSpaces(str, pos) ==
    IF pos < Len(str) /\ str[pos + 1] = " " THEN SkipSpaces(str, pos + 1) ELSE pos

\* lines 241-244: the position after the trailing spaces and tabs
RECURSIVE SkipTrailing(_, _)
SkipTrailing(str, pos) ==
    IF pos < Len(str) /\ str[pos + 1] \in {" ", "\t"}
    THEN SkipTrailing(str, pos + 1)
    ELSE pos

\* an adjustment that forgets the two cases of hour 12: C6 has to tell it from
\* AdjustHour
AdjustHourNoTwelve(res) ==
    IF res.hour12 /\ res.isPM THEN res.hour + 12 ELSE res.hour

\* an adjustment that applies the marker whether or not %I was seen
AdjustHourByMarker(res) ==
    IF res.ampmSet /\ res.isPM /\ res.hour # 12 THEN res.hour + 12
    ELSE IF res.ampmSet /\ ~res.isPM /\ res.hour = 12 THEN 0
    ELSE res.hour

\* lines 254-264: the hour after the 12-hour adjustment
AdjustHour(res) ==
    IF res.hour12 /\ res.isPM /\ res.hour # 12 THEN res.hour + 12
    ELSE IF res.hour12 /\ ~res.isPM /\ res.hour = 12 THEN 0
    ELSE res.hour

\* lines 241-267: after the loop
ParseFinish(st, str) ==
    LET j1 == SkipTrailing(str, st.j)
        res == st.result
        r  == IF j1 # Len(str) THEN ReturnError("unparsed trailing characters", j1)
              ELSE IF res.hour12 /\ ~res.ampmSet
              THEN ReturnError("12-hour format specified but missing AM/PM marker", -1)
              ELSE IF res.hour12 /\ (res.hour < 1 \/ res.hour > 12)
              THEN ReturnError("invalid hour for 12-hour format", -1)
              ELSE ReturnTime(Date(res.year, res.month, res.day, AdjustHour(res),
                                   res.minute, res.second))
    IN  [st EXCEPT !.pc = "done", !.ret = r, !.j = j1,
                   !.result = IF r.kind = "time"
                              THEN [res EXCEPT !.hour = AdjustHour(res)] ELSE res,
                   !.log = Append(st.log, LogEntry("trailing", st.i, st.j, j1,
                                                   j1 = Len(str)))]

\* lines 59-78: the run as ParseL starts it
ParseStart(format, base) ==
    [i |-> 0, j |-> 0, flen |-> Len(format), result |-> InitResult(base),
     pc |-> IF Len(format) > 0 THEN "loop" ELSE "final",
     ret |-> NoReturn, log |-> <<>>]

\* ParseL(format, s, locale) called when time.Now() is base, run to its return
RECURSIVE ParseRun(_, _, _, _)
ParseRun(st, format, str, loc) ==
    IF st.pc = "loop" THEN ParseRun(ParseStep(st, format, str, loc), format, str, loc)
    ELSE IF st.pc = "final" THEN ParseFinish(st, str)
    ELSE st

ParseL(format, str, locale, base) ==
    ParseRun(ParseStart(format, base), format, str, LocaleOrDefault(locale)).ret

(***************************************************************************)
(* What the formatters read from a time.Time                               *)
(***************************************************************************)
DaysBeforeMonth(y, m) ==
    LET RECURSIVE Sum(_)
        Sum(k) == IF k < 1 THEN 0 ELSE DaysIn(y, k) + Sum(k - 1)
    IN  Sum(m - 1)

\* t.YearDay()
YearDay(t) == DaysBeforeMonth(t.year, t.month) + t.day

\* days since 0000-12-31 of the proleptic Gregorian calendar (0001-01-01 is 1)
DayNumber(t) ==
    LET y == t.year - 1
    IN  365 * y + (y \div 4) - (y \div 100) + (y \div 400) + YearDay(t)

\* int(t.Weekday()): 0 is Sunday; 0001-01-01 is a Monday
Weekday(t) == DayNumber(t) % 7

\* t.ISOWeek(): the year and the week of the Thursday of t's week
ISOWeek(t) ==
    LET wd  == IF Weekday(t) = 0 THEN 7 ELSE Weekday(t)
        thu == NormDay(t.year, t.month, t.day + 4 - wd)
    IN  [year |-> thu.year, week |-> ((YearDay(thu) - 1) \div 7) + 1]

\* t.Unix() for a time in UTC
Unix(t) ==
    (DayNumber(t) - DayNumber([year |-> 1970, month |-> 1, day |-> 1])) * 86400
        + t.hour * 3600 + t.minute * 60 + t.second

\* Go's x % y for y > 0: the remainder has the sign of x
GoRem(x, y) == IF x < 0 THEN 0 - ((0 - x) % y) ELSE x % y

\* Go's x / y for y > 0: the quotient truncates towards zero
GoQuo(x, y) == IF x < 0 THEN 0 - ((0 - x) \div y) ELSE x \div y

\* appendInt of package time: the digits zero-padded to width, after the sign
AppendInt(x, width) ==
    IF x < 0
    THEN <<"-">> \o Repeat("0", width - Len(NatDigits(0 - x))) \o NatDigits(0 - x)
    ELSE Repeat("0", width - Len(NatDigits(x))) \o NatDigits(x)

\* the hour modulo 12, without the turn of 0 into 12
Hour12Zero(t) == t.hour % 12

\* the hour on the 12-hour clock
Hour12(t) == IF t.hour % 12 = 0 THEN 12 ELSE t.hour % 12

\* t.Format of the layouts the formatters use; Go's own English names are those
\* of DefaultLocale
LayoutDate(t) ==
    AppendInt(t.month, 2) \o <<"/">> \o AppendInt(t.day, 2) \o <<"/">>
        \o AppendInt(GoRem(t.year, 100), 2)

LayoutISODate(t) ==
    AppendInt(t.year, 4) \o <<"-">> \o AppendInt(t.month, 2) \o <<"-">>
        \o AppendInt(t.day, 2)

LayoutHM(t) == AppendInt(t.hour, 2) \o <<":">> \o AppendInt(t.minute, 2)

LayoutHMS(t) == LayoutHM(t) \o <<":">> \o AppendInt(t.second, 2)

LayoutZone == <<"U", "T", "C">>

LayoutOffset == <<"+", "0", "0", "0", "0">>

LayoutC(t, withZone) ==
    DefaultLocale.WeekdaysAbbrev[Weekday(t) + 1] \o <<" ">>
        \o DefaultLocale.MonthsAbbrev[t.month] \o <<" ">> \o Itoa(t.day) \o <<" ">>
        \o LayoutHMS(t) \o <<" ">>
        \o (IF withZone THEN LayoutZone \o <<" ">> ELSE <<>>) \o AppendInt(t.year, 4)

\* the text of one directive, or a panic on an out-of-range table index
Text(str) == [ok |-> TRUE, str |-> str]

IndexPanic == [ok |-> FALSE, str |-> <<>>]

\* names[k] for a 0-based k, as Go indexes a slice
At(names, k) == IF k >= 0 /\ k < Len(names) THEN Text(names[k + 1]) ELSE IndexPanic

(***************************************************************************)
(* StrftimeL, the minimal formatter (src/format.go lines 18-123)           *)
(*                                                                         *)
(* A run is the record fs: the cursor i, the text written so far, pc       *)
(* ("loop", "done"), whether the run panicked, and log, one entry per      *)
(* iteration: the conversion character ("literal" for a literal, "" when   *)
(* the format ends inside the directive), the format cursor before, the    *)
(* length of the text before and after, and whether the run goes on.       *)
(***************************************************************************)
FormatStart(format) ==
    [i |-> 0, out |-> <<>>, pc |-> IF Len(format) > 0 THEN "loop" ELSE "done",
     panicked |-> FALSE, log |-> <<>>]

\* the step writes text and moves the cursor to next, or leaves the loop there
Emit(fs, format, spec, text, next) ==
    [fs EXCEPT !.i = next, !.out = fs.out \o text,
               !.pc = IF next < Len(format) THEN "loop" ELSE "done",
               !.log = Append(fs.log, LogEntry(spec, fs.i, Len(fs.out),
                                               Len(fs.out) + Len(text), TRUE))]

\* break: the format ends inside the directive
Break(fs, text) ==
    [fs EXCEPT !.out = fs.out \o text, !.pc = "done",
               !.log = Append(fs.log, LogEntry("", fs.i, Len(fs.out),
                                               Len(fs.out) + Len(text), TRUE))]

\* a directive's text is written, or its table lookup panics
EmitOrPanic(fs, format, spec, r, next) ==
    IF r.ok THEN Emit(fs, format, spec, r.str, next)
    ELSE [fs EXCEPT !.pc = "done", !.panicked = TRUE,
                    !.log = Append(fs.log, LogEntry(spec, fs.i, Len(fs.out),
                                                    Len(fs.out), FALSE))]

\* lines 52-116: the switch of the minimal formatter
Render(spec, t, loc) ==
    CASE spec = "A" -> At(loc.WeekdaysFull, Weekday(t))
      [] spec = "a" -> At(loc.WeekdaysAbbrev, Weekday(t))
      [] spec = "B" -> IF t.month - 1 >= 0 /\ t.month - 1 < Len(loc.MonthsFull)
                       THEN Text(loc.MonthsFull[t.month]) ELSE Text(<<>>)
      [] spec \in {"b", "h"} ->
                       IF t.month - 1 >= 0 /\ t.month - 1 < Len(loc.MonthsAbbrev)
                       THEN Text(loc.MonthsAbbrev[t.month]) ELSE Text(<<>>)
      [] spec = "C" -> Text(SprintfZero(GoQuo(t.year, 100), 2))
      [] spec = "c" -> Text(LayoutC(t, FALSE))
      [] spec = "D" -> Text(LayoutDate(t))
      [] spec = "d" -> Text(SprintfZero(t.day, 2))
      [] spec = "e" -> Text(SprintfSpace(t.day, 2))
      [] spec = "H" -> Text(SprintfZero(t.hour, 2))
      [] spec = "I" -> Text(SprintfZero(Hour12(t), 2))
      [] spec = "M" -> Text(SprintfZero(t.minute, 2))
      [] spec = "S" -> Text(SprintfZero(t.second, 2))
      [] spec = "p" -> Text(IF t.hour < 12 THEN loc.AM ELSE loc.PM)
      [] spec = "y" -> Text(SprintfZero(GoRem(t.year, 100), 2))
      [] spec = "Y" -> Text(SprintfZero(t.year, 4))
      [] spec = "m" -> Text(SprintfZero(t.month, 2))
      [] spec = "j" -> Text(SprintfZero(YearDay(t), 3))
      [] spec = "F" -> Text(LayoutISODate(t))
      [] spec = "Z" -> Text(LayoutZone)
      [] spec = "z" -> Text(LayoutOffset)
      [] spec = "%" -> Text(<<"%">>)
      [] OTHER -> Text(<<"%", spec>>)

\* lines 25-121: one iteration of the loop
FormatStep(fs, format, t, loc) ==
    IF format[fs.i + 1] # "%"
    THEN Emit(fs, format, "literal", <<format[fs.i + 1]>>, fs.i + 1)
    ELSE LET i1 == fs.i + 1
         IN  IF i1 >= Len(format) THEN Break(fs, <<"%">>)
             ELSE IF format[i1 + 1] \in {"E", "O"}
             THEN LET i2 == i1 + 1
                  IN  IF i2 >= Len(format) THEN Break(fs, <<"%", format[i2]>>)
                      ELSE IF format[i2 + 1] = "%"
                      THEN (IF i2 + 1 >= Len(format) THEN Break(fs, <<"%">>)
                            ELSE EmitOrPanic(fs, format, format[i2 + 2],
                                             Render(format[i2 + 2], t, loc), i2 + 2))
                      ELSE EmitOrPanic(fs, format, format[i2 + 1],
                                       Render(format[i2 + 1], t, loc), i2 + 1)
             ELSE EmitOrPanic(fs, format, format[i1 + 1],
                              Render(format[i1 + 1], t, loc), i1 + 1)

FormatReturn(fs) ==
    [kind |-> IF fs.panicked THEN "panic" ELSE "string", str |-> fs.out]

RECURSIVE FormatRun(_, _, _, _)
FormatRun(fs, format, t, loc) ==
    IF fs.pc = "loop" THEN FormatRun(FormatStep(fs, format, t, loc), format, t, loc)
    ELSE fs

\* StrftimeL(format, t, locale) of lines 18-123
StrftimeL(format, t, locale) ==
    FormatReturn(FormatRun(FormatStart(format), format, t, LocaleOrDefault(locale)))

(***************************************************************************)
(* StrftimeL, the formatter with padding modifiers (lines 140-375)         *)
(***************************************************************************)
\* a padding that is always of zeros: C14 has to tell it from formatInt
formatIntZeros(value, width, padChar) ==
    IF Len(Itoa(value)) >= width THEN Itoa(value)
    ELSE Repeat("0", width - Len(Itoa(value))) \o Itoa(value)

\* lines 378-386
formatInt(value, width, padChar) ==
    IF Len(Itoa(value)) >= width THEN Itoa(value)
    ELSE Repeat(padChar, width - Len(Itoa(value))) \o Itoa(value)

\* if padWidth > 0 { formatInt(value, width, padChar) } else { strconv.Itoa(value) }
Padded(value, padWidth, width, padChar) ==
    IF padWidth > 0 THEN formatInt(value, width, padChar) ELSE Itoa(value)

\* lines 194-370: the switch of the formatter with padding modifiers
RenderPad(spec, t, loc, padWidth, padChar) ==
    CASE spec = "A" -> At(loc.WeekdaysFull, Weekday(t))
      [] spec = "a" -> At(loc.WeekdaysAbbrev, Weekday(t))
      [] spec = "B" -> At(loc.MonthsFull, t.month - 1)
      [] spec \in {"b", "h"} -> At(loc.MonthsAbbrev, t.month - 1)
      [] spec = "C" -> Text(Padded(GoQuo(t.year, 100), padWidth, padWidth, padChar))
      [] spec = "c" -> Text(LayoutC(t, FALSE))
      [] spec = "D" -> Text(LayoutDate(t))
      [] spec = "d" -> Text(Padded(t.day, padWidth, padWidth, padChar))
      [] spec = "e" -> Text(SprintfSpace(t.day, 2))
      [] spec = "F" -> Text(LayoutISODate(t))
      [] spec = "G" -> Text(Padded(ISOWeek(t).year, padWidth, 4, padChar))
      [] spec = "g" -> Text(Padded(GoRem(ISOWeek(t).year, 100), padWidth, 2, padChar))
      [] spec = "H" -> Text(Padded(t.hour, padWidth, padWidth, padChar))
      [] spec = "I" -> Text(Padded(Hour12(t), padWidth, padWidth, padChar))
      [] spec = "j" -> Text(Padded(YearDay(t), padWidth, 3, padChar))
      [] spec = "k" -> Text(SprintfSpace(t.hour, 2))
      [] spec = "l" -> Text(SprintfSpace(Hour12(t), 2))
      [] spec = "M" -> Text(Padded(t.minute, padWidth, padWidth, padChar))
      [] spec = "m" -> Text(Padded(t.month, padWidth, padWidth, padChar))
      [] spec = "n" -> Text(<<"\n">>)
      [] spec = "p" -> Text(IF t.hour < 12 THEN loc.AM ELSE loc.PM)
      [] spec = "R" -> Text(LayoutHM(t))
      [] spec = "r" -> Text(SprintfZero(Hour12(t), 2) \o <<":">>
                            \o SprintfZero(t.minute, 2) \o <<":">>
                            \o SprintfZero(t.second, 2) \o <<" ">>
                            \o (IF t.hour >= 12 THEN loc.PM ELSE loc.AM))
      [] spec = "S" -> Text(Padded(t.second, padWidth, padWidth, padChar))
      [] spec = "s" -> Text(Itoa(Unix(t)))
      [] spec = "T" -> Text(LayoutHMS(t))
      [] spec = "t" -> Text(<<"\t">>)
      [] spec \in {"U", "V", "W"} -> Text(Padded(ISOWeek(t).week, padWidth, 2, padChar))
      [] spec = "u" -> Text(Itoa(IF Weekday(t) = 0 THEN 7 ELSE Weekday(t)))
      [] spec = "v" ->
            LET mon == At(loc.MonthsAbbrev, t.month - 1)
            IN  IF mon.ok
                THEN Text(SprintfSpace(t.day, 2) \o <<"-">> \o mon.str \o <<"-">>
                          \o SprintfZero(t.year, 4))
                ELSE IndexPanic
      [] spec = "w" -> Text(Itoa(Weekday(t)))
      [] spec = "X" -> Text(LayoutHMS(t))
      [] spec = "x" -> Text(LayoutDate(t))
      [] spec = "Y" -> Text(Padded(t.year, padWidth, 4, padChar))
      [] spec = "y" -> Text(Padded(GoRem(t.year, 100), padWidth, 2, padChar))
      [] spec = "Z" -> Text(LayoutZone)
      [] spec = "z" -> Text(LayoutOffset)
      [] spec = "+" -> Text(LayoutC(t, TRUE))
      [] spec = "%" -> Text(<<"%">>)
      [] OTHER -> Text(<<spec>>)

\* lines 147-372: one iteration of the loop
FormatStepPad(fs, format, t, loc) ==
    IF format[fs.i + 1] # "%"
    THEN Emit(fs, format, "literal", <<format[fs.i + 1]>>, fs.i + 1)
    ELSE LET i1 == fs.i + 1
         IN  IF i1 >= Len(format) THEN Break(fs, <<>>)
             ELSE IF format[i1 + 1] = "%" THEN Emit(fs, format, "%", <<"%">>, i1 + 1)
             ELSE LET modifier == format[i1 + 1] \in {"-", "_", "0"}
                      padChar  == IF format[i1 + 1] = "_" THEN " " ELSE "0"
                      padWidth == IF format[i1 + 1] = "-" THEN 0 ELSE 2
                      i2 == IF modifier THEN i1 + 1 ELSE i1
                  IN  IF i2 >= Len(format) THEN Break(fs, <<>>)
                      ELSE LET i3 == IF format[i2 + 1] \in {"E", "O"} THEN i2 + 1 ELSE i2
                           IN  IF i3 >= Len(format) THEN Break(fs, <<>>)
                               ELSE EmitOrPanic(fs, format, format[i3 + 1],
                                                RenderPad(format[i3 + 1], t, loc,
                                                          padWidth, padChar),
                                                i3 + 1)

RECURSIVE FormatRunPad(_, _, _, _)
FormatRunPad(fs, format, t, loc) ==
    IF fs.pc = "loop" THEN FormatRunPad(FormatStepPad(fs, format, t, loc), format, t, loc)
    ELSE fs

\* StrftimeL(format, t, loc) of lines 140-375
StrftimeLPad(format, t, locale) ==
    FormatReturn(FormatRunPad(FormatStart(format), format, t, LocaleOrDefault(locale)))

(***************************************************************************)
(* The calls the model makes                                               *)
(***************************************************************************)
\* the format strings ParseL is called with
ParseFormats ==
    {<<"%", "Y", "-", "%", "m", "-", "%", "d", " ", "%", "H", ":", "%", "M", ":", "%", "S">>,
     <<"%", "Y">>,
     <<"%", "y">>,
     <<"%", "m">>,
     <<"%", "d">>,
     <<"%", "H">>,
     <<"%", "M">>,
     <<"%", "S">>,
     <<"%", "I">>,
     <<"%", "H", "%", "M">>,
     <<"%", "H", ":", "%", "M">>,
     <<"%", "m", "%", "d">>,
     <<"%", "I", "%", "p">>,
     <<"%", "p", "%", "I">>,
     <<"%", "I", " ", "%", "p">>,
     <<"%", "I", ":", "%", "M", " ", "%", "p">>,
     <<"%", "I", ":", "%", "M", ":", "%", "S", " ", "%", "p">>,
     <<"%", "I", "%", "H", "%", "p">>,
     <<"%", "H", "%", "I", "%", "p">>,
     <<"%", "I", "%", "I", "%", "p">>,
     <<"%", "H", "%", "p">>,
     <<"%", "p">>,
     <<"%", "p", " ", "%", "H">>,
     <<"%", "D">>,
     <<"%", "F">>,
     <<"%", "e">>,
     <<"%", "d", "%", "e">>,
     <<"%", "B">>,
     <<"%", "b">>,
     <<"%", "h">>,
     <<"%", "A">>,
     <<"%", "a">>,
     <<"%", "A", "%", "Y">>,
     <<"%", "%">>,
     <<"%", "%", " ", "%", "Y">>,
     <<"%", "Q">>,
     <<"%", "C">>,
     <<"%", "C", "-", "%", "m">>,
     <<"%">>,
     <<"%", "E">>,
     <<"%", "O">>,
     <<"%", "E", "%">>,
     <<"%", "O", "%">>,
     <<"%", "Y", "%">>,
     <<"%", "Y", "%", "E">>,
     <<"a", "%">>,
     <<"D", "a", "t", "e", ":", " ", "%">>,
     <<"%", "E", "Y">>,
     <<"%", "E", "%", "Y">>,
     <<"%", "O", "Y">>,
     <<"%", "O", "%", "H">>,
     <<"%", "E", "E">>,
     <<"%", "%", "E">>,
     <<>>,
     <<"a">>,
     <<"a", "b">>,
     <<"-">>,
     <<"Y">>}

\* the input strings ParseL is called with
ParseInputs ==
    {<<>>,
     <<" ">>,
     <<"\t">>,
     <<" ", " ">>,
     <<"2", "0", "2", "5">>,
     <<"2", "0", "a", "5">>,
     <<"2", "0", "2">>,
     <<"2", "0", "2", "5", "X">>,
     <<"2", "0", "2", "5", " ">>,
     <<"2", "0", "2", "5", " ", "\t">>,
     <<"+", "1", "2", "3">>,
     <<"-", "1", "2", "3">>,
     <<"0", "9", "9", "9">>,
     <<"1", "0", "0", "0", "0">>,
     <<" ", " ", " ", " ">>,
     <<"1", "2">>,
     <<"1">>,
     <<"0", "0">>,
     <<"0", "3">>,
     <<"1", "3">>,
     <<"2", "3">>,
     <<"9", "9">>,
     <<"1", "a">>,
     <<"+", "5">>,
     <<"-", "5">>,
     <<"6", "8">>,
     <<"6", "9">>,
     <<"1", "2", "3", "0">>,
     <<"1", "2", ":", "3", "0">>,
     <<"1", "2", ":", "9", "9">>,
     <<"0", "2", "3", "0">>,
     <<"0", "2", "3", "1">>,
     <<"0", "3", "P", "M">>,
     <<"P", "M", "0", "3">>,
     <<"0", "3", " ", "P", "M">>,
     <<"1", "2", "A", "M">>,
     <<"1", "2", "P", "M">>,
     <<"0", "0", "A", "M">>,
     <<"1", "3", "P", "M">>,
     <<"0", "3", "A", "M">>,
     <<"0", "0", "1", "1", "A", "M">>,
     <<"0", "0", "1", "3", "A", "M">>,
     <<"1", "1", "0", "3", "P", "M">>,
     <<"0", "3", "0", "3", "P", "M">>,
     <<"0", "3", ":", "3", "0", " ", "P", "M">>,
     <<"0", "3", ":", "9", "9", " ", "P", "M">>,
     <<"0", "3", ":", "-", "1", " ", "P", "M">>,
     <<"1", "2", ":", "3", "0", ":", "4", "5", " ", "A", "M">>,
     <<"1", "2", ":", "3", "0", ":", "4", "5", " ", "P", "M">>,
     <<"0", "3", ":", "5", "9", ":", "9", "9", " ", "P", "M">>,
     <<"A", "M">>,
     <<"P", "M">>,
     <<"N", "K">>,
     <<"P", "M", " ", "1", "5">>,
     <<"1", "5", "P", "M">>,
     <<"1", "2", " ", "A", "M">>,
     <<"2", "4", "A", "M">>,
     <<"9", "9", "P", "M">>,
     <<"%">>,
     <<"%", " ", "2", "0", "2", "5">>,
     <<"x">>,
     <<"a">>,
     <<"a", "b">>,
     <<"b">>,
     <<"-">>,
     <<"Y">>,
     <<"n", "o", "t", "%">>,
     <<"%", "E">>,
     <<"1", "2", "/", "3", "1", "/", "9", "9">>,
     <<"1", "2", "-", "3", "1", "/", "9", "9">>,
     <<"1", "2", "/", "3", "1", "-", "9", "9">>,
     <<"0", "2", "/", "3", "0", "/", "6", "8">>,
     <<"1", "3", "/", "0", "1", "/", "6", "9">>,
     <<"1", "2", "/", "3", "1", "/", "9">>,
     <<"1", "2", "/", "3", "1">>,
     <<"1", "2", "/">>,
     <<"2", "0", "2", "5", "-", "0", "2">>,
     <<"2", "0", "2", "5", "-", "0", "2", "-", "2", "5">>,
     <<"2", "0", "2", "5", "/", "0", "2", "-", "2", "5">>,
     <<"2", "0", "2", "5", "-", "0", "2", "/", "2", "5">>,
     <<"2", "0", "a", "5", "-", "0", "2", "-", "2", "5">>,
     <<"2", "0", "2", "5", "-", "1", "3", "-", "3", "1">>,
     <<"2", "0", "2", "5", "-", "0", "2", "-", "2">>,
     <<" ", "5">>,
     <<"5">>,
     <<"2", "5">>,
     <<"2", "5", "5">>,
     <<" ", " ", "5">>,
     <<"a", "5">>,
     <<"0", "1", " ", "5">>,
     <<"0", "1", "5">>,
     <<"F", "e", "b", "r", "u", "a", "r", "y">>,
     <<"F", "e", "b">>,
     <<"M", "a", "y">>,
     <<"M", "a", "r", "c", "h">>,
     <<"N", "o", "t", "A", "M", "o", "n", "t", "h">>,
     <<"X", "Y", "Z">>,
     <<"F", "r", "i", "d", "a", "y">>,
     <<"F", "r", "i">>,
     <<"N", "o", "t", "A", "W", "e", "e", "k", "d", "a", "y">>,
     <<"F", "r", "i", "d", "a", "y", "2", "0", "2", "5">>,
     <<"2", "0", "2", "5", "-", "0", "2", "-", "2", "5", " ", "1", "5", ":", "3", "0", ":", "4", "5">>,
     <<"2", "0", "2", "5", "-", "0", "2", "-", "2", "5", " ", "1", "5", ":", "3", "0", ":", "4", "5", " ", " ", " ", " ">>,
     <<"2", "0", "2", "5", "-", "0", "2", "-", "2", "5", " ", "1", "5", ":", "3", "0", ":", "4", "5", " ", "E", "X", "T", "R", "A">>,
     <<"2", "0", "2", "5", "/", "0", "2", "/", "2", "5">>,
     <<"D", "a", "t", "e", ":", " ">>,
     <<"D", "a", "t", "e", ":", " ", "x">>}

\* formats that read locale names, called with every locale
NameFormats ==
    {<<"%", "B">>,
     <<"%", "b">>,
     <<"%", "h">>,
     <<"%", "A">>,
     <<"%", "a">>,
     <<"%", "p">>,
     <<"%", "I", "%", "p">>,
     <<"%", "B", "%", "d">>,
     <<"%", "a", "%", "H">>}

\* inputs that carry names of DefaultLocale and CustomLocale
NameInputs ==
    {<<"M", "a">>,
     <<"M", "a", "i">>,
     <<"J", "u", "n", "i">>,
     <<"M">>,
     <<"M", "i">>,
     <<"J">>,
     <<"S", "o">>,
     <<"D", "i">>,
     <<"S">>,
     <<"a">>,
     <<"a", "p">>,
     <<"0", "3", "a">>,
     <<"0", "3", "a", "p">>,
     <<"M", "a", "y">>,
     <<"M", "a", "i", "0", "5">>,
     <<"S", "1", "2">>,
     <<"M", "o", "n">>,
     <<"M", "o", "n", "d", "a", "y">>,
     <<"A", "M">>,
     <<"x">>,
     <<>>}

\* the format strings the formatters are called with
StrftimeFormats ==
    {<<"%", "Y", "-", "%", "m", "-", "%", "d", " ", "%", "H", ":", "%", "M", ":", "%", "S">>,
     <<"%", "I", ":", "%", "M", " ", "%", "p">>,
     <<"%", "I", " ", "%", "p">>,
     <<"%", "H", ":", "%", "M">>,
     <<"%", "D">>,
     <<"%", "F">>,
     <<"%", "y">>,
     <<"%", "e">>,
     <<"%", "A", ",", " ", "%", "B", " ", "%", "d">>,
     <<"%", "a", " ", "%", "b">>,
     <<"%", "h">>,
     <<>>,
     <<"a", "b", "c">>,
     <<"%", "%">>,
     <<"%", "%", " ", "%", "Y">>,
     <<"%">>,
     <<"D", "a", "t", "e", ":", " ", "%">>,
     <<"%", "Y", "%">>,
     <<"%", "E">>,
     <<"%", "O">>,
     <<"%", "E", "%">>,
     <<"%", "E", "Y">>,
     <<"%", "O", "Y">>,
     <<"%", "E", "%", "Y">>,
     <<"%", "O", "%", "H">>,
     <<"%", "Q">>,
     <<"%", "C">>,
     <<"%", "j">>,
     <<"%", "-", "d">>,
     <<"%", "_", "m">>,
     <<"%", "0", "Y">>,
     <<"%", "-">>,
     <<"%", "-", "E">>,
     <<"%", "c">>,
     <<"%", "Z", "%", "z">>}

\* the values time.Now() takes when ParseL is called
Moments ==
    {[year |-> 2025, month |-> 1, day |-> 30, hour |-> 10, minute |-> 20, second |-> 30],
     [year |-> 2024, month |-> 12, day |-> 31, hour |-> 23, minute |-> 59, second |-> 59]}

\* fmt.Sprintf("%02d", v) for the two-digit values
TwoDigitValues == 0..99

PivotCalls ==
    {[format |-> <<"%", "y">>, s |-> SprintfZero(v, 2), locale |-> NilLocale] :
        v \in TwoDigitValues}
    \cup {[format |-> <<"%", "D">>,
           s |-> <<"0", "1", "/", "0", "2", "/">> \o SprintfZero(v, 2),
           locale |-> NilLocale] : v \in TwoDigitValues}

\* the arguments of the ParseL calls
ParseCalls ==
    {[format |-> f, s |-> x, locale |-> NilLocale] : f \in ParseFormats, x \in ParseInputs}
    \cup {[format |-> f, s |-> x, locale |-> l] :
            f \in NameFormats, x \in NameInputs, l \in {"default", "custom"}}
    \cup PivotCalls

\* the times that are formatted: each is a date of the calendar
Years == {-1000, -999, -1, 0, 999, 1000, 2024, 9999, 10000}

Times ==
    {tm \in [year : Years, month : {1, 2, 12}, day : {1, 29, 31}, hour : {0, 12, 23},
             minute : {0, 59}, second : {0, 59}] : tm.day <= DaysIn(tm.year, tm.month)}

FewTimes ==
    {[year |-> 2025, month |-> 2, day |-> 3, hour |-> 9, minute |-> 5, second |-> 7],
     [year |-> 2023, month |-> 4, day |-> 5, hour |-> 15, minute |-> 30, second |-> 45],
     [year |-> 2024, month |-> 12, day |-> 29, hour |-> 0, minute |-> 0, second |-> 0],
     [year |-> 2025, month |-> 7, day |-> 4, hour |-> 12, minute |-> 34, second |-> 56],
     [year |-> 2005, month |-> 1, day |-> 4, hour |-> 0, minute |-> 0, second |-> 0]}

RoundTripFormat ==
    <<"%", "Y", "-", "%", "m", "-", "%", "d", " ", "%", "H", ":", "%", "M", ":", "%", "S">>

\* the conversion letters of the switch of lines 52-111
RecognisedMinimal ==
    {"A", "a", "B", "b", "h", "C", "c", "D", "d", "e", "H", "I", "M", "S", "p", "y",
     "Y", "m", "j", "F", "Z", "z"}

\* the conversion letters of the switch of lines 194-367, which also has '+'
RecognisedPad ==
    RecognisedMinimal
    \cup {"G", "g", "k", "l", "n", "R", "r", "s", "T", "t", "U", "u", "V", "v", "W",
          "w", "X", "x"}

\* letters that take the default of both switches
UnknownLetters == {"Q", "J", "f", "N", "i"}

\* one directive for each of these characters
LetterFormats == {<<"%", c>> : c \in RecognisedPad \cup UnknownLetters \cup {"+"}}

\* ParseL called with each of these directives
LetterCalls ==
    {[format |-> f, s |-> x, locale |-> NilLocale] : f \in LetterFormats, x \in NameInputs}

\* a few calls of every kind, for the runs that are followed to their return
FewParseCalls ==
    {[format |-> <<"a">>, s |-> <<"a">>, locale |-> NilLocale],
     [format |-> <<"a">>, s |-> <<"b">>, locale |-> NilLocale],
     [format |-> <<"a", "b">>, s |-> <<"a">>, locale |-> NilLocale],
     [format |-> <<"%">>, s |-> <<>>, locale |-> NilLocale],
     [format |-> <<"%", "E">>, s |-> <<"x">>, locale |-> NilLocale],
     [format |-> <<"%", "Y">>, s |-> <<"2", "0", "2", "5">>, locale |-> NilLocale],
     [format |-> <<"%", "Y">>, s |-> <<"2", "0", "2", "5", " ", "\t">>, locale |-> NilLocale],
     [format |-> <<"%", "Y">>, s |-> <<"2", "0", "a", "5">>, locale |-> NilLocale],
     [format |-> <<"%", "H", ":", "%", "M">>, s |-> <<"1", "2", ":", "3", "0">>, locale |-> NilLocale],
     [format |-> <<"%", "H", ":", "%", "M">>, s |-> <<"1", "2">>, locale |-> NilLocale],
     [format |-> <<"%", "e">>, s |-> <<" ", "5">>, locale |-> NilLocale],
     [format |-> <<"%", "e">>, s |-> <<>>, locale |-> NilLocale],
     [format |-> <<"%", "I", " ", "%", "p">>, s |-> <<"0", "3", " ", "P", "M">>, locale |-> NilLocale],
     [format |-> <<"%", "I">>, s |-> <<"0", "3">>, locale |-> NilLocale],
     [format |-> <<"%", "D">>, s |-> <<"1", "2", "/", "3", "1", "-", "9", "9">>, locale |-> NilLocale],
     [format |-> <<"%", "D">>, s |-> <<"1", "2", "-", "3", "1", "/", "9", "9">>, locale |-> NilLocale],
     [format |-> <<"%", "F">>, s |-> <<"2", "0", "2", "5", "-", "0", "2", "/", "2", "5">>, locale |-> NilLocale],
     [format |-> <<"%", "B">>, s |-> <<"M", "a", "y">>, locale |-> NilLocale],
     [format |-> <<"%", "b">>, s |-> <<"x", "y", "z">>, locale |-> NilLocale],
     [format |-> <<"%", "A", "%", "Y">>, s |-> <<"F", "r", "i", "d", "a", "y", "2", "0", "2", "5">>, locale |-> NilLocale],
     [format |-> <<"%", "a">>, s |-> <<"F", "r", "i">>, locale |-> NilLocale],
     [format |-> <<"%", "%">>, s |-> <<"%">>, locale |-> NilLocale],
     [format |-> <<"%", "Q">>, s |-> <<"Q">>, locale |-> NilLocale],
     [format |-> <<"%", "E", "%", "Y">>, s |-> <<"2", "0", "2", "5">>, locale |-> NilLocale],
     [format |-> <<"%", "Y", "-", "%", "m", "-", "%", "d", " ", "%", "H", ":", "%", "M", ":", "%", "S">>, s |-> <<"2", "0", "2", "5", "-", "0", "2", "-", "2", "5", " ", "1", "5", ":", "3", "0", ":", "4", "5">>, locale |-> NilLocale],
     [format |-> <<>>, s |-> <<>>, locale |-> NilLocale]}

FewFormats ==
    {<<"%", "Y", "-", "%", "m", "-", "%", "d", " ", "%", "H", ":", "%", "M", ":", "%", "S">>,
     <<"%", "I", " ", "%", "p">>,
     <<"%", "A", ",", " ", "%", "B", " ", "%", "d">>,
     <<"%">>,
     <<"%", "E", "%", "Y">>,
     <<"%", "Q">>,
     <<"%", "-", "d">>,
     <<"a", "b", "c">>,
     <<>>,
     <<"%", "%">>,
     <<"%", "c">>,
     <<"D", "a", "t", "e", ":", " ", "%">>}

FewStrftimeCalls ==
    {[format |-> f, t |-> tm, locale |-> NilLocale] : f \in FewFormats, tm \in FewTimes}

\* the arguments of the StrftimeL calls
StrftimeCalls ==
    {[format |-> f, t |-> tm, locale |-> l] :
        f \in StrftimeFormats \cup LetterFormats, tm \in FewTimes,
        l \in {NilLocale, "custom"}}
    \cup {[format |-> RoundTripFormat, t |-> tm, locale |-> NilLocale] : tm \in Times}

\* the Locale objects in memory, by the pointer that refers to them:
\* DefaultLocale of locale.go and a Locale of the caller
InitHeap == [default |-> DefaultLocale, custom |-> CustomLocale]

\* a lookup of the locale that remembers the caller's Locale as the default
ResolveLocaleRemember(h, ptr) ==
    IF ptr = NilLocale THEN [heap |-> h, loc |-> "default"]
    ELSE [heap |-> [h EXCEPT !["default"] = h[ptr]], loc |-> ptr]

\* if locale == nil { locale = DefaultLocale }: the parameter is reassigned,
\* no Locale object is written
ResolveLocale(h, ptr) ==
    [heap |-> h, loc |-> IF ptr = NilLocale THEN "default" ELSE ptr]

\* the goroutines that call the library at the same time
NumGoroutines == 2

Goroutines == 1..NumGoroutines

\* a goroutine that is in no call
IdleCall ==
    [op |-> "none", format |-> <<>>, s |-> <<>>, t |-> NoTime, locale |-> NilLocale,
     loc |-> "default", base |-> NoTime, run |-> [pc |-> "idle"]]

\* the calls concurrent callers make: they share DefaultLocale and one Locale
SharedParseCalls ==
    {[format |-> <<"%", "B">>, s |-> <<"M", "a", "i">>, locale |-> "custom"],
     [format |-> <<"%", "b">>, s |-> <<"M", "a", "y">>, locale |-> NilLocale],
     [format |-> <<"%", "I", "%", "p">>, s |-> <<"0", "3", "a">>, locale |-> "custom"],
     [format |-> <<"%", "a", "%", "H">>, s |-> <<"M", "o", "n", "1", "2">>,
      locale |-> "default"]}

SharedFormatCalls ==
    {[format |-> <<"%", "a", " ", "%", "b">>, t |-> tm, locale |-> l] :
        tm \in {[year |-> 2024, month |-> 12, day |-> 29, hour |-> 0, minute |-> 0,
                 second |-> 0],
                [year |-> 2025, month |-> 2, day |-> 3, hour |-> 9, minute |-> 5,
                 second |-> 7]},
        l \in {NilLocale, "custom"}}
    \cup {[format |-> <<"%", "I", " ", "%", "p">>,
           t |-> [year |-> 2023, month |-> 4, day |-> 5, hour |-> 15, minute |-> 30,
                  second |-> 45],
           locale |-> "custom"]}

(***************************************************************************)
(* The state machine: a caller makes one call at a time; a call runs one   *)
(* loop iteration per step and returns.                                    *)
(***************************************************************************)
VARIABLES
    op,        \* the function that is running: "none", "ParseL", "StrftimeL", "StrftimeLPad"
    format,    \* its format argument
    s,         \* ParseL's input argument
    sfrom,     \* where s comes from: "caller", or the formatter whose output it is
    locale,    \* its *Locale argument
    base,      \* ParseL's base := time.Now()
    t,         \* the formatter's time argument
    i,         \* the format cursor
    j,         \* ParseL's input cursor
    result,    \* ParseL's parseResult
    pc,        \* "idle", "loop", "final" (ParseL after its loop), "done"
    ret,       \* what the call returned
    log,       \* ParseL's iterations so far
    out,       \* the formatter's strings.Builder
    heap,      \* the Locale objects the pointers refer to
    calls      \* the call each goroutine is running, when calls run concurrently

vars == <<op, format, s, sfrom, locale, base, t, i, j, result, pc, ret, log, out, heap, calls>>

\* the part of the state that belongs to concurrent callers
shared == <<heap, calls>>

Init ==
    /\ op = "none"
    /\ format = <<>>
    /\ s = <<>>
    /\ sfrom = "caller"
    /\ locale = NilLocale
    /\ base = NoTime
    /\ t = NoTime
    /\ i = 0
    /\ j = 0
    /\ result = InitResult(NoTime)
    /\ pc = "idle"
    /\ ret = NoReturn
    /\ log = <<>>
    /\ out = <<>>
    /\ heap = InitHeap
    /\ calls = [g \in Goroutines |-> IdleCall]

\* the running ParseL as a run record, and a run record as the next state
Run ==
    [i |-> i, j |-> j, flen |-> Len(format), result |-> result, pc |-> pc,
     ret |-> ret, log |-> log]

Become(st) ==
    /\ i' = st.i
    /\ j' = st.j
    /\ result' = st.result
    /\ pc' = st.pc
    /\ ret' = st.ret
    /\ log' = st.log

\* ParseL(format, s, locale) is called: lines 59-78
Enter(f, x, l, b) ==
    /\ op' = "ParseL"
    /\ format' = f
    /\ s' = x
    /\ locale' = l
    /\ base' = b
    /\ Become(ParseStart(f, b))
    /\ UNCHANGED shared

CallParseL ==
    /\ pc = "idle"
    /\ \E c \in ParseCalls \cup LetterCalls, b \in Moments :
            Enter(c.format, c.s, c.locale, b)
    /\ sfrom' = "caller"
    /\ UNCHANGED <<t, out>>

\* the caller parses back what a formatter returned, with the same format and locale
CallParseLOnOutput ==
    /\ pc = "done"
    /\ ret.kind = "string"
    /\ \E b \in Moments : Enter(format, out, locale, b)
    /\ sfrom' = op
    /\ UNCHANGED <<t, out>>

\* one iteration of the loop of lines 80-239
ParseIteration ==
    /\ Become(ParseStep(Run, format, s, LocaleOrDefault(locale)))
    /\ UNCHANGED <<op, format, s, sfrom, locale, base, t, out, heap, calls>>

\* the iteration, by the case of the loop body it takes
ParseLiteralStep ==
    /\ op = "ParseL" /\ pc = "loop" /\ Class(format, i) = "literal"
    /\ ParseIteration

ParseIncompleteStep ==
    /\ op = "ParseL" /\ pc = "loop" /\ Class(format, i) = "incomplete"
    /\ ParseIteration

ParseFixedStep ==
    /\ op = "ParseL" /\ pc = "loop" /\ Class(format, i) = "fixed"
    /\ ParseIteration

ParseDayStep ==
    /\ op = "ParseL" /\ pc = "loop" /\ Class(format, i) = "day"
    /\ ParseIteration

ParseAmPmStep ==
    /\ op = "ParseL" /\ pc = "loop" /\ Class(format, i) = "ampm"
    /\ ParseIteration

ParseCompositeStep ==
    /\ op = "ParseL" /\ pc = "loop" /\ Class(format, i) = "composite"
    /\ ParseIteration

ParseMonthStep ==
    /\ op = "ParseL" /\ pc = "loop" /\ Class(format, i) = "month"
    /\ ParseIteration

ParseWeekdayStep ==
    /\ op = "ParseL" /\ pc = "loop" /\ Class(format, i) = "weekday"
    /\ ParseIteration

ParsePercentStep ==
    /\ op = "ParseL" /\ pc = "loop" /\ Class(format, i) = "percent"
    /\ ParseIteration

ParseUnsupportedStep ==
    /\ op = "ParseL" /\ pc = "loop" /\ Class(format, i) = "unsupported"
    /\ ParseIteration

\* lines 241-267
ParseFinishStep ==
    /\ op = "ParseL"
    /\ pc = "final"
    /\ Become(ParseFinish(Run, s))
    /\ UNCHANGED <<op, format, s, sfrom, locale, base, t, out, heap, calls>>

\* a formatter is called
EnterFormat ==
    /\ \E c \in StrftimeCalls :
        /\ format' = c.format
        /\ t' = c.t
        /\ locale' = c.locale
        /\ i' = 0
        /\ out' = <<>>
        /\ pc' = FormatStart(c.format).pc
        /\ ret' = IF FormatStart(c.format).pc = "done"
                  THEN [NoReturn EXCEPT !.kind = "string"] ELSE NoReturn
    /\ log' = <<>>
    /\ UNCHANGED <<s, sfrom, base, j, result, heap, calls>>

CallStrftimeL ==
    /\ pc = "idle"
    /\ op' = "StrftimeL"
    /\ EnterFormat

CallStrftimeLPad ==
    /\ pc = "idle"
    /\ op' = "StrftimeLPad"
    /\ EnterFormat

\* the running formatter as a run record, and a run record as the next state
FRun == [i |-> i, out |-> out, pc |-> pc, panicked |-> FALSE, log |-> log]

FBecome(fs) ==
    /\ i' = fs.i
    /\ out' = fs.out
    /\ pc' = fs.pc
    /\ log' = fs.log
    /\ ret' = IF fs.pc = "done" THEN [NoReturn EXCEPT !.kind = FormatReturn(fs).kind]
              ELSE NoReturn

FormatIteration ==
    /\ op = "StrftimeL"
    /\ pc = "loop"
    /\ FBecome(FormatStep(FRun, format, t, LocaleOrDefault(locale)))
    /\ UNCHANGED <<op, format, s, sfrom, locale, base, t, j, result, heap, calls>>

FormatIterationPad ==
    /\ op = "StrftimeLPad"
    /\ pc = "loop"
    /\ FBecome(FormatStepPad(FRun, format, t, LocaleOrDefault(locale)))
    /\ UNCHANGED <<op, format, s, sfrom, locale, base, t, j, result, heap, calls>>

\* the call is over and the caller is free to make the next one
Return ==
    /\ pc = "done"
    /\ op' = "none"
    /\ format' = <<>>
    /\ s' = <<>>
    /\ sfrom' = "caller"
    /\ locale' = NilLocale
    /\ base' = NoTime
    /\ t' = NoTime
    /\ i' = 0
    /\ j' = 0
    /\ result' = InitResult(NoTime)
    /\ pc' = "idle"
    /\ ret' = NoReturn
    /\ log' = <<>>
    /\ out' = <<>>
    /\ UNCHANGED shared

Next ==
    \/ CallParseL
    \/ CallParseLOnOutput
    \/ ParseLiteralStep
    \/ ParseIncompleteStep
    \/ ParseFixedStep
    \/ ParseDayStep
    \/ ParseAmPmStep
    \/ ParseCompositeStep
    \/ ParseMonthStep
    \/ ParseWeekdayStep
    \/ ParsePercentStep
    \/ ParseUnsupportedStep
    \/ ParseFinishStep
    \/ CallStrftimeL
    \/ CallStrftimeLPad
    \/ FormatIteration
    \/ FormatIterationPad
    \/ Return

Spec == Init /\ [][Next]_vars

(***************************************************************************)
(* Concurrent callers: each goroutine makes one call at a time, the calls  *)
(* of different goroutines interleave iteration by iteration, and every    *)
(* iteration reads the Locale its pointer refers to.                       *)
(***************************************************************************)
\* what no concurrent step touches: the single caller's call
single == <<op, format, s, sfrom, locale, base, t, i, j, result, pc, ret, log, out>>

\* goroutine g calls ParseL: lines 59-78
GoParseL ==
    \E g \in Goroutines, c \in SharedParseCalls, b \in Moments :
        /\ calls[g].run.pc = "idle"
        /\ heap' = ResolveLocale(heap, c.locale).heap
        /\ calls' = [calls EXCEPT ![g] =
                        [op |-> "ParseL", format |-> c.format, s |-> c.s, t |-> NoTime,
                         locale |-> c.locale, loc |-> ResolveLocale(heap, c.locale).loc,
                         base |-> b, run |-> ParseStart(c.format, b)]]
        /\ UNCHANGED single

\* the call record of a formatter that has just been entered: lines 18-24 and
\* 140-146 of format.go
FormatCall(name, c) ==
    [op |-> name, format |-> c.format, s |-> <<>>, t |-> c.t,
     locale |-> c.locale, loc |-> ResolveLocale(heap, c.locale).loc,
     base |-> NoTime, run |-> FormatStart(c.format)]

GoStrftimeL ==
    \E g \in Goroutines, c \in SharedFormatCalls :
        /\ calls[g].run.pc = "idle"
        /\ heap' = ResolveLocale(heap, c.locale).heap
        /\ calls' = [calls EXCEPT ![g] = FormatCall("StrftimeL", c)]
        /\ UNCHANGED single

GoStrftimeLPad ==
    \E g \in Goroutines, c \in SharedFormatCalls :
        /\ calls[g].run.pc = "idle"
        /\ heap' = ResolveLocale(heap, c.locale).heap
        /\ calls' = [calls EXCEPT ![g] = FormatCall("StrftimeLPad", c)]
        /\ UNCHANGED single

\* one iteration of the loop of the call of goroutine g: no statement of the
\* loops assigns through the locale pointer
GoParseIteration ==
    \E g \in Goroutines :
        /\ calls[g].op = "ParseL"
        /\ calls[g].run.pc = "loop"
        /\ calls' = [calls EXCEPT ![g].run =
                        ParseStep(@, calls[g].format, calls[g].s, heap[calls[g].loc])]
        /\ UNCHANGED <<heap, single>>

GoParseFinish ==
    \E g \in Goroutines :
        /\ calls[g].op = "ParseL"
        /\ calls[g].run.pc = "final"
        /\ calls' = [calls EXCEPT ![g].run = ParseFinish(@, calls[g].s)]
        /\ UNCHANGED <<heap, single>>

GoFormatIteration ==
    \E g \in Goroutines :
        /\ calls[g].op = "StrftimeL"
        /\ calls[g].run.pc = "loop"
        /\ calls' = [calls EXCEPT ![g].run =
                        FormatStep(@, calls[g].format, calls[g].t, heap[calls[g].loc])]
        /\ UNCHANGED <<heap, single>>

GoFormatIterationPad ==
    \E g \in Goroutines :
        /\ calls[g].op = "StrftimeLPad"
        /\ calls[g].run.pc = "loop"
        /\ calls' = [calls EXCEPT ![g].run =
                        FormatStepPad(@, calls[g].format, calls[g].t, heap[calls[g].loc])]
        /\ UNCHANGED <<heap, single>>

\* the call of goroutine g is over
GoReturn ==
    \E g \in Goroutines :
        /\ calls[g].run.pc = "done"
        /\ calls' = [calls EXCEPT ![g] = IdleCall]
        /\ UNCHANGED <<heap, single>>

NextConcurrent ==
    \/ GoParseL
    \/ GoStrftimeL
    \/ GoStrftimeLPad
    \/ GoParseIteration
    \/ GoParseFinish
    \/ GoFormatIteration
    \/ GoFormatIterationPad
    \/ GoReturn

SpecConcurrent == Init /\ [][NextConcurrent]_vars

(***************************************************************************)
(* Calls followed to their return: the caller makes one of a few calls of  *)
(* every kind, and a call that has started keeps running, as a goroutine   *)
(* that is not blocked does.                                               *)
(***************************************************************************)
CallParseLFew ==
    /\ pc = "idle"
    /\ \E c \in FewParseCalls, b \in Moments : Enter(c.format, c.s, c.locale, b)
    /\ sfrom' = "caller"
    /\ UNCHANGED <<t, out>>

\* a formatter is called with one of the few calls
EnterFormatFew ==
    /\ \E c \in FewStrftimeCalls :
        /\ format' = c.format
        /\ t' = c.t
        /\ locale' = c.locale
        /\ i' = 0
        /\ out' = <<>>
        /\ pc' = FormatStart(c.format).pc
        /\ ret' = IF FormatStart(c.format).pc = "done"
                  THEN [NoReturn EXCEPT !.kind = "string"] ELSE NoReturn
    /\ log' = <<>>
    /\ UNCHANGED <<s, sfrom, base, j, result, heap, calls>>

CallStrftimeLFew ==
    /\ pc = "idle"
    /\ op' = "StrftimeL"
    /\ EnterFormatFew

CallStrftimeLPadFew ==
    /\ pc = "idle"
    /\ op' = "StrftimeLPad"
    /\ EnterFormatFew

\* the running call executes its next loop iteration, or what follows the loop
Iterate ==
    \/ ParseLiteralStep
    \/ ParseIncompleteStep
    \/ ParseFixedStep
    \/ ParseDayStep
    \/ ParseAmPmStep
    \/ ParseCompositeStep
    \/ ParseMonthStep
    \/ ParseWeekdayStep
    \/ ParsePercentStep
    \/ ParseUnsupportedStep
    \/ ParseFinishStep
    \/ FormatIteration
    \/ FormatIterationPad

NextTerminating ==
    \/ CallParseLFew
    \/ CallStrftimeLFew
    \/ CallStrftimeLPadFew
    \/ ParseLiteralStep
    \/ ParseIncompleteStep
    \/ ParseFixedStep
    \/ ParseDayStep
    \/ ParseAmPmStep
    \/ ParseCompositeStep
    \/ ParseMonthStep
    \/ ParseWeekdayStep
    \/ ParsePercentStep
    \/ ParseUnsupportedStep
    \/ ParseFinishStep
    \/ FormatIteration
    \/ FormatIterationPad
    \/ Return

SpecTerminating == Init /\ [][NextTerminating]_vars /\ WF_vars(Iterate)

(***************************************************************************)
(* What the properties below speak of                                      *)
(***************************************************************************)
\* the iterations the running ParseL call has made, as indices of log
ParseEntries == IF op = "ParseL" THEN 1..Len(log) ELSE {}

\* ParseL has returned or panicked
ParseDone == op = "ParseL" /\ pc = "done"

\* the format cursor after iteration k
CursorAfter(k) == IF k < Len(log) THEN log[k + 1].i ELSE i

\* width decimal digits are at pos
DigitsAt(str, pos, width) ==
    /\ pos + width <= Len(str)
    /\ \A k \in (pos + 1)..(pos + width) : IsDigit(str[k])

\* the number those digits write
NumberAt(str, pos, width) == DigitsValue(Slice(str, pos, pos + width))

(***************************************************************************)
(* C1: at a fixed-width numeric specifier (%Y of 4 characters; %y %m %d %H *)
(* %I %M %S of 2), when fewer characters than the width remain at the      *)
(* input cursor or one of them is not a decimal digit, ParseL returns an   *)
(* error and never a time; when the field is read, the input cursor        *)
(* advances by exactly the width.                                          *)
(***************************************************************************)
C1_FixedWidthFieldErrors ==
    \A k \in ParseEntries :
        LET e == log[k]
        IN  e.spec \in FixedSpecs =>
                IF DigitsAt(s, e.from, FixedWidth(e.spec))
                THEN e.to = e.from + FixedWidth(e.spec)
                ELSE pc = "done" => ret.kind = "error"

(***************************************************************************)
(* C2: at a literal character of the format, if the input cursor is at the *)
(* end of the input or the input byte differs from the format character,   *)
(* ParseL returns a 'literal mismatch' error that reports the cursor       *)
(* position; if the byte is equal, both cursors advance by one.            *)
(***************************************************************************)
C2_LiteralMismatch ==
    \A k \in ParseEntries :
        LET e == log[k]
        IN  e.spec = "literal" =>
                IF e.from >= Len(s) \/ s[e.from + 1] # format[e.i + 1]
                THEN /\ pc = "done"
                     /\ ret.kind = "error"
                     /\ ret.msg = "literal mismatch"
                     /\ ret.pos = e.from
                ELSE /\ e.to = e.from + 1
                     /\ CursorAfter(k) = e.i + 1

(***************************************************************************)
(* C3: round trip. For every time t and the format "%Y-%m-%d %H:%M:%S",    *)
(* ParseL of what StrftimeL wrote, with the same format and locale,        *)
(* succeeds and returns a time with the year, month, day, hour, minute and *)
(* second of t.                                                            *)
(***************************************************************************)
\* ParseL has returned from parsing what formatter wrote for t with RoundTripFormat
RoundTripDone(formatter) ==
    ParseDone /\ sfrom = formatter /\ format = RoundTripFormat

\* C3 as stated, of the formatter of format.go lines 18-123: ParseL of what
\* StrftimeL wrote for t succeeds and returns the fields of t, for every t.
\* Refuted by the year 10000.
C3_RoundTripEveryTime ==
    RoundTripDone("StrftimeL") => ret.kind = "time" /\ ret.time = t

\* the years whose %Y text is the four characters ParseL reads back
RoundTripYears(formatter) ==
    IF formatter = "StrftimeL" THEN (0 - 999)..9999 ELSE 0..9999

\* C3 amended: ParseL of what StrftimeL wrote for t succeeds and returns the
\* fields of t for the years -999..9999 with the formatter of lines 18-123 and
\* for the years 0..9999 with the one of lines 140-375
C3_RoundTrip ==
    \A formatter \in {"StrftimeL", "StrftimeLPad"} :
        (RoundTripDone(formatter) /\ t.year \in RoundTripYears(formatter)) =>
            ret.kind = "time" /\ ret.time = t

C3_Witness ==
    /\ RoundTripDone("StrftimeL")
    /\ t.year = 9999
    /\ t.month = 12
    /\ ret.kind = "time"
    /\ ret.time = t

(***************************************************************************)
(* C4: for every successful ParseL call, each of the fields year, month,   *)
(* day, hour, minute, second that no directive of the format sets has, in  *)
(* the returned time, the value it has in the current moment captured at   *)
(* the start of the call.                                                  *)
(***************************************************************************)
Fields == {"year", "month", "day", "hour", "minute", "second"}

\* the conversion characters that write the field
SettersOf(field) ==
    CASE field = "year" -> {"Y", "y", "D", "F"}
      [] field = "month" -> {"m", "D", "F", "B", "b", "h"}
      [] field = "day" -> {"d", "e", "D", "F"}
      [] field = "hour" -> {"H", "I"}
      [] field = "minute" -> {"M"}
      [] field = "second" -> {"S"}

\* a directive of the format sets the field
SetByFormat(field) == \E k \in ParseEntries : log[k].spec \in SettersOf(field)

\* the fields are a date of the calendar and a time of the clock
IsDateTime(res) ==
    /\ res.month \in 1..12
    /\ res.day >= 1 /\ res.day <= DaysIn(res.year, res.month)
    /\ res.hour \in 0..23
    /\ res.minute \in 0..59
    /\ res.second \in 0..59

\* every fixed-width field of the run was read from decimal digits
FieldsAreDigits ==
    \A k \in ParseEntries :
        log[k].spec \in FixedSpecs => DigitsAt(s, log[k].from, FixedWidth(log[k].spec))

\* C4 as stated: in the returned time every field that no directive sets has the
\* current moment's value (and that even when every numeric field is read from
\* decimal digits). Refuted by "%m" reading 02 on a 30 January, which returns
\* 2 March.
C4_UnsetFieldsInReturnedTime ==
    (ParseDone /\ ret.kind = "time" /\ FieldsAreDigits) =>
        \A f \in Fields : ~SetByFormat(f) => ret.time[f] = base[f]

\* C4 amended: for every successful call, the fields no directive sets keep the
\* current moment's values in the parse result, and the returned time has the
\* parse result's fields whenever they are a date of the calendar and a time of
\* the clock
C4_UnsetFieldsKeepReference ==
    (ParseDone /\ ret.kind = "time") =>
        /\ \A f \in Fields : ~SetByFormat(f) => result[f] = base[f]
        /\ IsDateTime(result) => \A f \in Fields : ret.time[f] = result[f]

C4_Witness ==
    /\ ParseDone
    /\ ret.kind = "time"
    /\ format = <<"%", "H", ":", "%", "M">>
    /\ ret.time.hour = 12 /\ ret.time.minute = 30
    /\ ret.time.year = base.year /\ ret.time.month = base.month
    /\ ret.time.day = base.day /\ ret.time.second = base.second

(***************************************************************************)
(* C5: for every format that contains %I, in any position and together     *)
(* with any other directives, ParseL succeeds only if a %p directive also  *)
(* matched an AM/PM marker and the value read by %I lies in 1..12.         *)
(***************************************************************************)
\* the value the %I of iteration k read
ValueRead(k) == parseFixedInt(s, log[k].from, FixedWidth(log[k].spec)).val

\* C5: a call whose format has a %I returns a time only if every %I read a
\* value in 1..12 and a %p matched a marker
C5_TwelveHourNeedsMarkerAndRange ==
    (ParseDone /\ ret.kind = "time") =>
        \A k \in ParseEntries :
            log[k].spec = "I" =>
                /\ ValueRead(k) \in 1..12
                /\ \E m \in ParseEntries : log[m].spec = "p" /\ log[m].ok

(***************************************************************************)
(* C6: for a format with one %I and one %p (in either order) and no %H,    *)
(* and a %I value h in 1..12, the hour of the returned time is h+12 when   *)
(* the marker is PM and h is not 12, 0 when the marker is AM and h is 12,  *)
(* and h otherwise.                                                        *)
(***************************************************************************)
EntriesOf(spec) == {k \in ParseEntries : log[k].spec = spec}

OneIOnePNoH ==
    /\ Cardinality(EntriesOf("I")) = 1
    /\ Cardinality(EntriesOf("p")) = 1
    /\ EntriesOf("H") = {}

\* the text the %p directive consumed is the locale's PM marker
MarkerIsPM ==
    LET e == log[CHOOSE k \in EntriesOf("p") : TRUE]
    IN  Slice(s, e.from, e.to) = LocaleOrDefault(locale).PM

TwelveHourValue == ValueRead(CHOOSE k \in EntriesOf("I") : TRUE)

ExpectedHour(h, pm) ==
    IF pm /\ h # 12 THEN h + 12
    ELSE IF ~pm /\ h = 12 THEN 0
    ELSE h

\* C6 as stated: with one %I, one %p, no %H and a %I value h in 1..12, the
\* returned hour is the mapped h (and that even when every numeric field is
\* read from decimal digits). Refuted by "%I:%M %p" reading "03:99 PM", which
\* returns hour 16.
C6_TwelveHourMappingAlways ==
    (/\ ParseDone /\ ret.kind = "time" /\ FieldsAreDigits
     /\ OneIOnePNoH /\ TwelveHourValue \in 1..12) =>
        ret.time.hour = ExpectedHour(TwelveHourValue, MarkerIsPM)

\* C6 amended: with one %I, one %p, no %H and a %I value h in 1..12, the
\* returned hour is the mapped h when the minute and the second of the parse
\* result lie in 0..59
C6_TwelveHourMapping ==
    (/\ ParseDone /\ ret.kind = "time" /\ OneIOnePNoH /\ TwelveHourValue \in 1..12
     /\ result.minute \in 0..59 /\ result.second \in 0..59) =>
        ret.time.hour = ExpectedHour(TwelveHourValue, MarkerIsPM)

C6_Witness ==
    /\ ParseDone /\ ret.kind = "time" /\ OneIOnePNoH
    /\ TwelveHourValue = 12
    /\ ~MarkerIsPM
    /\ ret.time.hour = 0
    /\ result.minute = 30

(***************************************************************************)
(* C7: two-digit year pivot. For %y, and for the year part of %D, every    *)
(* two-digit value v in 00..99 yields year 2000+v when v < 69 and 1900+v   *)
(* when v >= 69.                                                           *)
(***************************************************************************)
Pivoted(v) == IF v < 69 THEN 2000 + v ELSE 1900 + v

\* mm/dd/yy is at pos
WellFormedD(str, pos) ==
    /\ DigitsAt(str, pos, 2)
    /\ pos + 2 < Len(str) /\ str[pos + 3] = "/"
    /\ DigitsAt(str, pos + 3, 2)
    /\ pos + 5 < Len(str) /\ str[pos + 6] = "/"
    /\ DigitsAt(str, pos + 6, 2)

\* C7: right after %y or %D has read the two digits v, the parse result's year
\* is 2000+v when v < 69 and 1900+v otherwise, and so is the year of the time
\* that a format of %y alone returns
C7_TwoDigitYearPivot ==
    /\ \A k \in ParseEntries :
          LET e == log[k]
          IN  k = Len(log) =>
                /\ (e.spec = "y" /\ DigitsAt(s, e.from, 2)) =>
                        result.year = Pivoted(NumberAt(s, e.from, 2))
                /\ (e.spec = "D" /\ WellFormedD(s, e.from)) =>
                        result.year = Pivoted(NumberAt(s, e.from + 6, 2))
    /\ (ParseDone /\ format = <<"%", "y">> /\ Len(s) = 2 /\ DigitsAt(s, 0, 2)) =>
          ret.kind = "time" /\ ret.time.year = Pivoted(NumberAt(s, 0, 2))

C7_Witness ==
    /\ ParseDone
    /\ format = <<"%", "y">>
    /\ s = <<"6", "8">>
    /\ ret.kind = "time"
    /\ ret.time.year = 2068

(***************************************************************************)
(* C8: after the format string is exhausted, ParseL succeeds only if every *)
(* remaining input character is a space or a tab; any other remaining      *)
(* character makes it return an 'unparsed trailing characters' error, and  *)
(* any number of trailing spaces and tabs does not change the returned     *)
(* time.                                                                   *)
(***************************************************************************)
\* the longest run of spaces and tabs that is appended to an input
MaxTrail == 2

RECURSIVE Blanks(_)
Blanks(n) ==
    IF n = 0 THEN {<<>>}
    ELSE {Append(w, c) : w \in Blanks(n - 1), c \in {" ", "\t"}} \cup Blanks(n - 1)

\* the input that remains when the format is exhausted
Remaining == Slice(s, log[Len(log)].from, Len(s))

FormatExhausted == ParseDone /\ Len(log) > 0 /\ log[Len(log)].spec = "trailing"

\* C8: when the format is exhausted, a remaining character other than space and
\* tab gives the 'unparsed trailing characters' error, and a call that returns
\* a time returns the same time with up to MaxTrail more trailing spaces and tabs
C8_TrailingWhitespace ==
    FormatExhausted =>
        /\ (\E k \in 1..Len(Remaining) : Remaining[k] \notin {" ", "\t"}) =>
                /\ ret.kind = "error"
                /\ ret.msg = "unparsed trailing characters"
        /\ ret.kind = "time" =>
                \A w \in Blanks(MaxTrail) : ParseL(format, s \o w, locale, base) = ret

C8_Witness ==
    /\ FormatExhausted
    /\ ret.kind = "time"
    /\ Len(Remaining) = 2
    /\ Remaining[2] = "\t"
    /\ ret.time.year = 2025

(***************************************************************************)
(* C9: for every format string that ends in a lone '%', or in '%E' / '%O'  *)
(* (optionally followed by one more '%') with no conversion character      *)
(* after it, ParseL returns an error when the parser reaches that point:   *)
(* 'incomplete format specifier at end' in the first case and 'incomplete  *)
(* format specifier after posix extension' in the second.                  *)
(***************************************************************************)
\* what is left of the format at the cursor
FormatFrom(at) == Slice(format, at, Len(format))

LonePercentAt(at) == FormatFrom(at) = <<"%">>

ExtensionEndAt(at) ==
    FormatFrom(at) \in {<<"%", "E">>, <<"%", "O">>, <<"%", "E", "%">>, <<"%", "O", "%">>}

\* C9: an iteration at a lone '%' that ends the format returns the error
\* 'incomplete format specifier at end'; one at a '%E' or '%O' (with or without
\* one more '%') that ends it returns 'incomplete format specifier after posix
\* extension'
C9_IncompleteSpecifier ==
    \A k \in ParseEntries :
        /\ LonePercentAt(log[k].i) =>
                /\ pc = "done"
                /\ ret.kind = "error"
                /\ ret.msg = "incomplete format specifier at end"
        /\ ExtensionEndAt(log[k].i) =>
                /\ pc = "done"
                /\ ret.kind = "error"
                /\ ret.msg = "incomplete format specifier after posix extension"

C9_Witness ==
    /\ ParseDone
    /\ Len(log) = 2
    /\ log[1].spec = "Y" /\ log[1].ok
    /\ ExtensionEndAt(log[2].i)
    /\ ret.kind = "error"
    /\ ret.msg = "incomplete format specifier after posix extension"

(***************************************************************************)
(* C10: for every format string that ends in a lone '%', StrftimeL returns *)
(* the rendering of the text before that '%' and emits nothing for the     *)
(* trailing '%' ("Date: %" gives "Date: "), whereas ParseL with the same   *)
(* format returns an error.                                                *)
(***************************************************************************)
\* walking the directives from the cursor, the format ends in a lone '%'
RECURSIVE EndsInLonePercent(_, _)
EndsInLonePercent(fmt, at) ==
    IF at >= Len(fmt) THEN FALSE
    ELSE IF fmt[at + 1] # "%" THEN EndsInLonePercent(fmt, at + 1)
    ELSE IF at + 1 >= Len(fmt) THEN TRUE
    ELSE EndsInLonePercent(fmt, Scan(fmt, at).next)

\* the formatter's last iteration was at the lone '%' that ends the format
AtTrailingPercent ==
    /\ op \in {"StrftimeL", "StrftimeLPad"}
    /\ pc = "done"
    /\ Len(log) > 0
    /\ log[Len(log)].spec = ""
    /\ log[Len(log)].i = Len(format) - 1

\* C10: a formatter that reaches the lone '%' at the end of the format returns
\* its string having written nothing for it, and ParseL with a format that ends
\* in a lone '%' returns an error
C10_TrailingPercent ==
    /\ AtTrailingPercent =>
          /\ ret.kind = "string"
          /\ log[Len(log)].to = log[Len(log)].from
    /\ (ParseDone /\ EndsInLonePercent(format, 0)) => ret.kind = "error"

(***************************************************************************)
(* C11: POSIX extension equivalence when formatting. For every time t and  *)
(* every recognised conversion letter c, StrftimeL returns the same string *)
(* for "%Ec", "%Oc", "%E%c", "%O%c" and "%c".                              *)
(***************************************************************************)
Formatters == {"StrftimeL", "StrftimeLPad"}

\* the formatter has returned or panicked
FormatDone == op \in Formatters /\ pc = "done"

\* what the running formatter returned
Returned == [kind |-> ret.kind, str |-> out]

\* the call of the formatter of that name
Formatted(formatter, fmt, tm, l) ==
    IF formatter = "StrftimeL" THEN StrftimeL(fmt, tm, l) ELSE StrftimeLPad(fmt, tm, l)

\* the conversion letters the formatter of that name recognises
Recognised(formatter) ==
    IF formatter = "StrftimeL" THEN RecognisedMinimal ELSE RecognisedPad

\* the spellings of the directive with an extension prefix
ExtensionSpellings(c) ==
    {<<"%", "E", c>>, <<"%", "O", c>>, <<"%", "E", "%", c>>, <<"%", "O", "%", c>>}

\* the format is one directive %c
OneDirective == Len(format) = 2 /\ format[1] = "%"

\* C11: a formatter that has returned from "%c", c a letter it recognises,
\* returns the same from "%Ec", "%Oc", "%E%c" and "%O%c"
C11_FormatExtensionEquivalence ==
    (FormatDone /\ OneDirective /\ format[2] \in Recognised(op)) =>
        \A spelling \in ExtensionSpellings(format[2]) :
            Formatted(op, spelling, t, locale) = Returned

(***************************************************************************)
(* C12: POSIX extension equivalence when parsing. For every input, every   *)
(* locale and every conversion character c of ParseL's supported set (%Y   *)
(* %y %m %d %e %H %I %M %S %p %D %F %B %b %h %A %a %%), ParseL with the    *)
(* directive written "%Ec", "%Oc", "%E%c" or "%O%c" returns the same       *)
(* outcome as with "%c".                                                   *)
(***************************************************************************)
SupportedSpecs == FixedSpecs \cup {"e", "p", "D", "F", "B", "b", "h", "A", "a", "%"}

\* what replaces the '%' of a directive in a spelling with an extension prefix
ExtensionPrefixes == {<<"%", "E">>, <<"%", "O">>, <<"%", "E", "%">>, <<"%", "O", "%">>}

\* from the cursor on, the format is literals and directives %c with c supported
RECURSIVE PlainSupported(_, _)
PlainSupported(fmt, at) ==
    IF at >= Len(fmt) THEN TRUE
    ELSE IF fmt[at + 1] # "%" THEN PlainSupported(fmt, at + 1)
    ELSE /\ at + 1 < Len(fmt)
         /\ fmt[at + 2] \in SupportedSpecs
         /\ PlainSupported(fmt, at + 2)

\* that format with every directive %c written with the prefix; %% is written
\* so only when percentToo or when the prefix ends in '%'
RECURSIVE Spell(_, _, _, _)
Spell(fmt, at, prefix, percentToo) ==
    IF at >= Len(fmt) THEN <<>>
    ELSE IF fmt[at + 1] # "%" THEN <<fmt[at + 1]>> \o Spell(fmt, at + 1, prefix, percentToo)
    ELSE IF fmt[at + 2] = "%" /\ ~percentToo /\ Len(prefix) = 2
    THEN <<"%", "%">> \o Spell(fmt, at + 2, prefix, percentToo)
    ELSE prefix \o <<fmt[at + 2]>> \o Spell(fmt, at + 2, prefix, percentToo)

\* from the cursor on, the format is literals and directives %c, %Ec, %Oc, %E%c,
\* %O%c with c supported, one of them at least with a prefix
RECURSIVE ExtendedSupported(_, _, _)
ExtendedSupported(fmt, at, seen) ==
    IF at >= Len(fmt) THEN seen
    ELSE IF fmt[at + 1] # "%" THEN ExtendedSupported(fmt, at + 1, seen)
    ELSE LET sc == Scan(fmt, at)
         IN  /\ sc.kind = "spec"
             /\ sc.spec \in SupportedSpecs
             /\ ExtendedSupported(fmt, sc.next, seen \/ sc.next > at + 2)

\* that format with the prefixes taken away
RECURSIVE Unprefixed(_, _)
Unprefixed(fmt, at) ==
    IF at >= Len(fmt) THEN <<>>
    ELSE IF fmt[at + 1] # "%" THEN <<fmt[at + 1]>> \o Unprefixed(fmt, at + 1)
    ELSE <<"%", Scan(fmt, at).spec>> \o Unprefixed(fmt, Scan(fmt, at).next)

\* the same time, or an error in both
SameOutcome(a, b) == a.kind = b.kind /\ (a.kind = "time" => a.time = b.time)

\* C12 as stated: ParseL has the same outcome with every directive of the
\* format, %% included, written with any of the four prefixes. Refuted by "%E%",
\* which is an incomplete specifier, while "%%" reads a '%'.
C12_ParseExtensionEquivalenceAll ==
    (ParseDone /\ PlainSupported(format, 0)) =>
        \A prefix \in ExtensionPrefixes :
            SameOutcome(ParseL(Spell(format, 0, prefix, TRUE), s, locale, base), ret)

\* C12 amended: ParseL returns the same (time, error message and position) with
\* every directive of the format written with any of the four prefixes, %%
\* being written %E%% or %O%% only, and the same with the prefixes of a format
\* taken away
C12_ParseExtensionEquivalence ==
    /\ (ParseDone /\ PlainSupported(format, 0)) =>
          \A prefix \in ExtensionPrefixes :
              ParseL(Spell(format, 0, prefix, FALSE), s, locale, base) = ret
    /\ (ParseDone /\ ExtendedSupported(format, 0, FALSE)) =>
          ParseL(Unprefixed(format, 0), s, locale, base) = ret

C12_Witness ==
    /\ ParseDone
    /\ format = <<"%", "E", "%", "Y">>
    /\ Unprefixed(format, 0) = <<"%", "Y">>
    /\ s = <<"2", "0", "2", "5">>
    /\ ret.kind = "time"
    /\ ret.time.year = 2025

(***************************************************************************)
(* C13: unknown-specifier asymmetry. For every conversion letter that      *)
(* belongs to neither recognised set (e.g. Q), StrftimeL succeeds and      *)
(* emits the letter verbatim in place of the directive (the formatter with *)
(* padding modifiers the letter alone, the minimal formatter '%' followed  *)
(* by the letter), while ParseL, on reaching that directive, returns an    *)
(* 'unsupported conversion specifier' error whatever the input; ParseL     *)
(* also rejects letters that only the formatter supports, such as %C.      *)
(***************************************************************************)
Letters ==
    {"A", "B", "C", "D", "E", "F", "G", "H", "I", "J", "K", "L", "M", "N", "O", "P",
     "Q", "R", "S", "T", "U", "V", "W", "X", "Y", "Z", "a", "b", "c", "d", "e", "f",
     "g", "h", "i", "j", "k", "l", "m", "n", "o", "p", "q", "r", "s", "t", "u", "v",
     "w", "x", "y", "z"}

\* the letters after which a conversion character is still to come
PrefixLetters == {"E", "O"}

\* the letters no formatter and no parser recognises
UnknownToAll == Letters \ (RecognisedPad \cup SupportedSpecs \cup PrefixLetters)

\* the letters ParseL does not support
UnknownToParseL == Letters \ (SupportedSpecs \cup PrefixLetters)

\* the iterations the running formatter has made, as indices of log
FormatEntries == IF op \in Formatters THEN 1..Len(log) ELSE {}

NumericLetters ==
    {"d", "m", "H", "I", "M", "S", "y", "C", "g", "U", "V", "W", "j", "Y", "G"}

DefaultWidth(c) == IF c \in {"Y", "G"} THEN 4 ELSE IF c = "j" THEN 3 ELSE 2

\* the value the formatter of lines 140-375 renders for the letter
NumericValue(c, tm) ==
    CASE c = "d" -> tm.day
      [] c = "m" -> tm.month
      [] c = "H" -> tm.hour
      [] c = "I" -> Hour12(tm)
      [] c = "M" -> tm.minute
      [] c = "S" -> tm.second
      [] c = "y" -> GoRem(tm.year, 100)
      [] c = "C" -> GoQuo(tm.year, 100)
      [] c = "g" -> GoRem(ISOWeek(tm).year, 100)
      [] c \in {"U", "V", "W"} -> ISOWeek(tm).week
      [] c = "j" -> YearDay(tm)
      [] c = "Y" -> tm.year
      [] c = "G" -> ISOWeek(tm).year

\* the decimal, left-padded with the character to the width
LeftPadded(n, width, c) ==
    IF Len(Itoa(n)) >= width THEN Itoa(n) ELSE Repeat(c, width - Len(Itoa(n))) \o Itoa(n)

\* what the claim says the directive with that modifier ("" for none) renders
Rendering(modifier, c, tm) ==
    IF modifier = "-" THEN Itoa(NumericValue(c, tm))
    ELSE LeftPadded(NumericValue(c, tm), DefaultWidth(c), IF modifier = "_" THEN " " ELSE "0")

\* C14: for a numeric letter c the formatter of lines 140-375 returns the bare
\* decimal for "%-c", the decimal left-padded with spaces to the default width
\* for "%_c", and the decimal left-padded with zeros for "%0c" and for "%c"
C14_PaddingModifiers ==
    /\ (FormatDone /\ op = "StrftimeLPad" /\ OneDirective /\ format[2] \in NumericLetters) =>
          /\ Returned = [kind |-> "string", str |-> Rendering("", format[2], t)]
          /\ \A modifier \in {"-", "_", "0"} :
                StrftimeLPad(<<"%", modifier, format[2]>>, t, locale) =
                    [kind |-> "string", str |-> Rendering(modifier, format[2], t)]
    /\ (/\ FormatDone /\ op = "StrftimeLPad" /\ Len(format) = 3 /\ format[1] = "%"
        /\ format[2] \in {"-", "_", "0"} /\ format[3] \in NumericLetters) =>
          Returned = [kind |-> "string", str |-> Rendering(format[2], format[3], t)]

C14_Witness ==
    /\ FormatDone
    /\ op = "StrftimeLPad"
    /\ format = <<"%", "_", "m">>
    /\ t.month = 2
    /\ out = <<" ", "2">>

(***************************************************************************)
(* C15: month names when parsing. %B reads the locale's table of full      *)
(* month names and %b / %h the table of abbreviated ones. The month        *)
(* becomes i+1 for the lowest index i whose name is a prefix of the input  *)
(* at the cursor, the cursor advances by the length of that name, and when *)
(* no name is a prefix ParseL fails with 'failed to parse full month name' *)
(* or 'failed to parse abbreviated month name'.                            *)
(***************************************************************************)
MonthTable(spec) ==
    IF spec = "B" THEN LocaleOrDefault(locale).MonthsFull
    ELSE LocaleOrDefault(locale).MonthsAbbrev

\* the name occupies the input from the 0-based position on
IsPrefixAt(name, str, pos) ==
    /\ pos + Len(name) <= Len(str)
    /\ \A k \in 1..Len(name) : str[pos + k] = name[k]

\* 0-based indices of the names of the table that are a prefix at the position
MatchingIndices(table, str, pos) ==
    {n \in 0..(Len(table) - 1) : IsPrefixAt(table[n + 1], str, pos)}

Lowest(S) == CHOOSE n \in S : \A m \in S : n <= m

\* C15: after %B, %b or %h the month is the lowest matching index plus one
\* and the cursor has advanced by that name's length; when no name of the
\* table is a prefix of the input, ParseL returns the month-name error
C15_MonthNameFirstMatch ==
    \A k \in ParseEntries :
        LET e == log[k]
            table == MonthTable(e.spec)
            found == MatchingIndices(table, s, e.from)
        IN  (k = Len(log) /\ e.spec \in {"B", "b", "h"}) =>
                IF found = {}
                THEN /\ ~e.ok
                     /\ ParseDone
                     /\ ret.kind = "error"
                     /\ ret.msg = IF e.spec = "B" THEN "failed to parse full month name"
                                  ELSE "failed to parse abbreviated month name"
                ELSE /\ e.ok
                     /\ result.month = Lowest(found) + 1
                     /\ e.to = e.from + Len(table[Lowest(found) + 1])
                     /\ CursorAfter(k) = e.i + 2

\* "Ma" (index 0) and "Mai" (index 1) are both a prefix of "Mai": month 1
C15_Witness ==
    /\ op = "ParseL"
    /\ locale = "custom"
    /\ format = <<"%", "B">>
    /\ s = <<"M", "a", "i">>
    /\ Len(log) = 1
    /\ log[1].spec = "B"
    /\ log[1].to = 2
    /\ result.month = 1

(***************************************************************************)
(* C16: %p when parsing. The AM marker of the locale is tried first: when  *)
(* the input at the cursor starts with it, AM is recorded and the cursor   *)
(* advances by its length, also when the PM marker is a prefix there too.  *)
(* Otherwise the PM marker is tried in the same way, and when neither is a *)
(* prefix ParseL fails with 'expected AM/PM marker'.                       *)
(***************************************************************************)
Markers == LocaleOrDefault(locale)

\* C16: after %p, AM is recorded and its length consumed when the AM marker
\* is a prefix of the input at the cursor (even if the PM marker is one too),
\* else PM is recorded and its length consumed when the PM marker is a
\* prefix, else ParseL returns the 'expected AM/PM marker' error
C16_AmBeforePm ==
    \A k \in ParseEntries :
        LET e == log[k]
        IN  (k = Len(log) /\ e.spec = "p") =>
                IF IsPrefixAt(Markers.AM, s, e.from)
                THEN /\ e.ok
                     /\ result.ampmSet /\ ~result.isPM
                     /\ e.to = e.from + Len(Markers.AM)
                ELSE IF IsPrefixAt(Markers.PM, s, e.from)
                THEN /\ e.ok
                     /\ result.ampmSet /\ result.isPM
                     /\ e.to = e.from + Len(Markers.PM)
                ELSE /\ ~e.ok
                     /\ ParseDone
                     /\ ret.kind = "error"
                     /\ ret.msg = "expected AM/PM marker"

\* AM "a" and PM "ap" are both a prefix of "ap": AM is recorded, one
\* character is consumed
C16_Witness ==
    /\ op = "ParseL"
    /\ locale = "custom"
    /\ format = <<"%", "p">>
    /\ s = <<"a", "p">>
    /\ Len(log) = 1
    /\ log[1].spec = "p"
    /\ log[1].to = 1
    /\ result.ampmSet
    /\ ~result.isPM

(***************************************************************************)
(* C17: the composite specifiers when parsing. %D reads month '/' day '/'  *)
(* two-digit year and %F reads year '-' month '-' day. When the character  *)
(* after a field is missing or is not the separator, ParseL fails with the *)
(* message of that position; when the separators are there, the fields     *)
(* are stored in the order they are read.                                  *)
(***************************************************************************)
\* the character at the 0-based position is missing or is not the separator
NoSeparatorAt(str, pos, sep) == pos >= Len(str) \/ str[pos + 1] # sep

FailsWith(msg) == ParseDone /\ ret.kind = "error" /\ ret.msg = msg

WellFormedF(str, pos) ==
    /\ DigitsAt(str, pos, 4)
    /\ ~NoSeparatorAt(str, pos + 4, "-")
    /\ DigitsAt(str, pos + 5, 2)
    /\ ~NoSeparatorAt(str, pos + 7, "-")
    /\ DigitsAt(str, pos + 8, 2)

\* C17: %D fails with "expected '/' after month in %D" when the character
\* after the month field is missing or not '/', and with "expected '/' after
\* day in %D" for the one after the day field; %F fails with "expected '-'
\* after year in %F" and "expected '-' after month in %F" likewise; with
\* every separator in place %D stores month, day, year and %F stores year,
\* month, day, each from its field in that order
C17_CompositeSeparators ==
    \A k \in ParseEntries :
        LET e == log[k]
            f == e.from
        IN  k = Len(log) =>
              /\ e.spec = "D" =>
                    /\ (f >= Len(s) \/ (DigitsAt(s, f, 2) /\ NoSeparatorAt(s, f + 2, "/"))) =>
                           FailsWith("expected '/' after month in %D")
                    /\ (/\ DigitsAt(s, f, 2) /\ ~NoSeparatorAt(s, f + 2, "/")
                        /\ (f + 3 >= Len(s)
                            \/ (DigitsAt(s, f + 3, 2) /\ NoSeparatorAt(s, f + 5, "/")))) =>
                           FailsWith("expected '/' after day in %D")
                    /\ WellFormedD(s, f) =>
                           /\ e.ok
                           /\ e.to = f + 8
                           /\ result.month = NumberAt(s, f, 2)
                           /\ result.day = NumberAt(s, f + 3, 2)
                           /\ result.year = Pivoted(NumberAt(s, f + 6, 2))
              /\ e.spec = "F" =>
                    /\ (f >= Len(s) \/ (DigitsAt(s, f, 4) /\ NoSeparatorAt(s, f + 4, "-"))) =>
                           FailsWith("expected '-' after year in %F")
                    /\ (/\ DigitsAt(s, f, 4) /\ ~NoSeparatorAt(s, f + 4, "-")
                        /\ (f + 5 >= Len(s)
                            \/ (DigitsAt(s, f + 5, 2) /\ NoSeparatorAt(s, f + 7, "-")))) =>
                           FailsWith("expected '-' after month in %F")
                    /\ WellFormedF(s, f) =>
                           /\ e.ok
                           /\ e.to = f + 10
                           /\ result.year = NumberAt(s, f, 4)
                           /\ result.month = NumberAt(s, f + 5, 2)
                           /\ result.day = NumberAt(s, f + 8, 2)

\* "12/31-99" read by %D: the character after the day field is '-'
C17_Witness ==
    /\ ParseDone
    /\ format = <<"%", "D">>
    /\ s = <<"1", "2", "/", "3", "1", "-", "9", "9">>
    /\ log[Len(log)].spec = "D"
    /\ ret.kind = "error"
    /\ ret.msg = "expected '/' after day in %D"

(***************************************************************************)
(* C18: determinism of parsing. ParseL(format, s, locale) reads the        *)
(* current moment (time.Now) when it starts, so the call is compared with  *)
(* the same call made at every other moment.                               *)
(***************************************************************************)
\* the same call, made when the current moment is b, run to its return
CallAt(b) == ParseRun(ParseStart(format, b), format, s, LocaleOrDefault(locale))

AllFieldsSet == \A f \in Fields : SetByFormat(f)

C19_FormattingIsTotal ==
    FormatDone => ret.kind = "string"

(***************************************************************************)
(* C20: %e when parsing. One space at the cursor is skipped, then one or   *)
(* two digits are read as the day; no digit there is an error.             *)
(***************************************************************************)
\* the cursor after the optional space of %e
AfterSpace(str, pos) == IF pos < Len(str) /\ str[pos + 1] = " " THEN pos + 1 ELSE pos

\* the length of the run of decimal digits at the position, two at most
DayDigits(str, pos) ==
    IF DigitsAt(str, pos, 2) THEN 2 ELSE IF DigitsAt(str, pos, 1) THEN 1 ELSE 0

\* C20 as stated: %e skips at most one space, then reads the longest run of
\* one or two decimal digits as the day, and ParseL returns an error when no
\* digit is at the cursor after the optional space. Refuted by "%e" reading
\* "": the error of the read is dropped, the day becomes 0 and ParseL returns
\* a time.
C20_DayOfMonthE ==
    \A k \in ParseEntries :
        LET e == log[k]
            p == AfterSpace(s, e.from)
            n == DayDigits(s, p)
        IN  e.spec = "e" =>
              /\ (k = Len(log) /\ n > 0) =>
                    /\ result.day = NumberAt(s, p, n)
                    /\ e.to = p + n
              /\ (ParseDone /\ n = 0) => ret.kind = "error"

(***************************************************************************)
(* C21: the 12-hour clock when formatting. %I renders ((h + 11) mod 12) + 1 *)
(* as two zero-padded digits and %p the AM marker of the locale exactly    *)
(* when h < 12, the PM marker otherwise.                                   *)
(***************************************************************************)
Hours == 0..23

TwoDigits(n) == <<DigitChars[(n \div 10) + 1], DigitChars[(n % 10) + 1]>>

ClockHour(h) == ((h + 11) % 12) + 1

Marker(h, l) == IF h < 12 THEN LocaleOrDefault(l).AM ELSE LocaleOrDefault(l).PM

\* C21: for every hour h of 0..23 each formatter renders %I as the two digits
\* of ((h + 11) mod 12) + 1 and %p as the AM marker when h < 12, else the PM
\* marker, and "%I %p" as the two with a space between: "12 AM" for hour 0
\* and "12 PM" for hour 12
C21_TwelveHourFormatting ==
    /\ (FormatDone /\ format = <<"%", "I", " ", "%", "p">>) =>
          /\ Returned = [kind |-> "string",
                         str |-> TwoDigits(ClockHour(t.hour)) \o <<" ">> \o Marker(t.hour, locale)]
          /\ \A h \in Hours :
                LET tm == [t EXCEPT !.hour = h]
                IN  /\ Formatted(op, <<"%", "I">>, tm, locale) =
                          [kind |-> "string", str |-> TwoDigits(ClockHour(h))]
                    /\ Formatted(op, <<"%", "p">>, tm, locale) =
                          [kind |-> "string", str |-> Marker(h, locale)]
                    /\ Formatted(op, format, tm, locale) =
                          [kind |-> "string",
                           str |-> TwoDigits(ClockHour(h)) \o <<" ">> \o Marker(h, locale)]
    /\ (FormatDone /\ locale = NilLocale /\ format = <<"%", "I", " ", "%", "p">>) =>
          /\ t.hour = 0 => out = <<"1", "2", " ", "A", "M">>
          /\ t.hour = 12 => out = <<"1", "2", " ", "P", "M">>
          /\ Formatted(op, format, [t EXCEPT !.hour = 15], locale).str =
                <<"0", "3", " ", "P", "M">>

\* midnight formatted by "%I %p"
C21_Witness ==
    /\ FormatDone
    /\ locale = NilLocale
    /\ format = <<"%", "I", " ", "%", "p">>
    /\ t.hour = 0
    /\ out = <<"1", "2", " ", "A", "M">>

(***************************************************************************)
(* C22: weekday names when parsing. %A reads the locale's table of full    *)
(* weekday names and %a the table of abbreviated ones; the first name that *)
(* is a prefix of the input at the cursor is consumed and no field of the  *)
(* parse result changes, and when no name is a prefix ParseL fails.        *)
(***************************************************************************)
WeekdayTable(spec) ==
    IF spec = "A" THEN LocaleOrDefault(locale).WeekdaysFull
    ELSE LocaleOrDefault(locale).WeekdaysAbbrev

\* the step that is taken is an iteration of ParseL on %A or %a
WeekdayStep ==
    /\ op = "ParseL"
    /\ Len(log') = Len(log) + 1
    /\ log'[Len(log')].spec \in {"A", "a"}

\* the matched name and the cursor after it, or the error
WeekdayConsumed ==
    \A k \in ParseEntries :
        LET e == log[k]
            table == WeekdayTable(e.spec)
            found == MatchingIndices(table, s, e.from)
        IN  (k = Len(log) /\ e.spec \in {"A", "a"}) =>
                IF found = {}
                THEN /\ ~e.ok
                     /\ FailsWith(IF e.spec = "A" THEN "failed to parse full weekday name"
                                  ELSE "failed to parse abbreviated weekday name")
                ELSE /\ e.ok
                     /\ e.to = e.from + Len(table[Lowest(found) + 1])

\* a call whose format starts with %A or %a returns the same time, or an error
\* as well, whichever name of the table stands at the start of the input
AnyWeekdaySameTime ==
    (/\ ParseDone /\ Len(format) >= 2 /\ format[1] = "%" /\ format[2] \in {"A", "a"}
     /\ log[1].ok) =>
        \A n \in 1..Len(WeekdayTable(format[2])) :
            SameOutcome(ParseL(format,
                               WeekdayTable(format[2])[n] \o SubSeq(s, log[1].to + 1, Len(s)),
                               locale, base), ret)

\* C22: %A and %a move the cursor past the first name of the weekday table
\* that is a prefix of the input and change no field of the parse result, so
\* the returned time is the same whichever weekday name the input carried;
\* when no name is a prefix ParseL returns the 'failed to parse full / 
\* abbreviated weekday name' error
C22_WeekdayNamesAreNotStored ==
    /\ [](WeekdayConsumed /\ AnyWeekdaySameTime)
    /\ [][WeekdayStep => result' = result]_vars

\* "Friday2025" read by "%A%Y": a time of the year 2025 with the month and
\* day of the current moment
C22_Witness ==
    /\ ParseDone
    /\ format = <<"%", "A", "%", "Y">>
    /\ s = <<"F", "r", "i", "d", "a", "y", "2", "0", "2", "5">>
    /\ log[1].spec = "A"
    /\ log[1].to = 6
    /\ ret.kind = "time"
    /\ ret.time = [base EXCEPT !.year = 2025]

(***************************************************************************)
(* C23: the Locale is only read. Calls of several goroutines that share    *)
(* DefaultLocale and one Locale of the caller interleave; no step writes a *)
(* Locale object and every call returns what it returns when run alone.    *)
(***************************************************************************)
\* what the finished call of goroutine g returned
ReturnedBy(g) ==
    IF calls[g].op = "ParseL" THEN calls[g].run.ret ELSE FormatReturn(calls[g].run)

\* what the same call returns when it runs alone
Alone(g) ==
    IF calls[g].op = "ParseL"
    THEN ParseL(calls[g].format, calls[g].s, calls[g].locale, calls[g].base)
    ELSE Formatted(calls[g].op, calls[g].format, calls[g].t, calls[g].locale)

\* goroutine g is inside a call
Running(g) == calls[g].run.pc \in {"loop", "final"}

\* C23: under every interleaving of concurrent ParseL and StrftimeL calls that
\* share a Locale, the tables and markers of every Locale (DefaultLocale too,
\* which serves a nil argument) stay as they were, and each call returns what
\* it returns when it runs alone
C23_LocaleIsReadOnly ==
    /\ heap = InitHeap
    /\ \A g \in Goroutines : calls[g].run.pc = "done" => ReturnedBy(g) = Alone(g)

\* a ParseL call on the caller's Locale has returned while a formatter of
\* another goroutine is in its loop on the same Locale
C23_Witness ==
    \E g, h \in Goroutines :
        /\ g # h
        /\ calls[g].op = "ParseL" /\ calls[g].run.pc = "done" /\ calls[g].loc = "custom"
        /\ calls[g].run.ret.kind = "time"
        /\ calls[h].op \in Formatters /\ calls[h].run.pc = "loop" /\ calls[h].run.i > 0
        /\ calls[h].loc = "custom"

(***************************************************************************)
(* C24: termination. Every iteration of the main loop of ParseL and of     *)
(* both formatters moves the format cursor forward or returns, so a call   *)
(* makes at most one iteration per character of the format, and every call *)
(* that has started returns.                                               *)
(***************************************************************************)
\* the call is inside its loop or in what follows the loop
InCall == pc \in {"loop", "final"}

\* a step of the loop after which the call is still in the loop
LoopGoesOn == pc = "loop" /\ pc' = "loop"

\* the iterations made so far are no more than the characters of the format
\* (and the step after the loop of ParseL)
IterationsBounded ==
    /\ op = "ParseL" => Len(log) <= Len(format) + 1
    /\ op \in Formatters => Len(log) <= Len(format)
    /\ op # "none" => (i >= 0 /\ i <= Len(format) + 1)

\* C24: every iteration of the main loop advances the format cursor by at
\* least one position or is the last one, the iterations of a call are no
\* more than the format is long, and every ParseL and StrftimeL call that has
\* started returns (with a value, an error or a panic)
C24_EveryCallTerminates ==
    /\ []IterationsBounded
    /\ [][LoopGoesOn => i' > i]_vars
    /\ (InCall ~> pc = "done")

\* the six-directive format has been parsed to its return in twelve steps
C24_Witness ==
    /\ ParseDone
    /\ format = RoundTripFormat
    /\ ret.kind = "time"
    /\ Len(log) = 12
    /\ i = Len(format)

(***************************************************************************)
(* C25: the input cursor of ParseL. It stays within the input and moves    *)
(* only forward, from one iteration to the next, also when a directive     *)
(* fails to read its field.                                                *)
(***************************************************************************)
\* the cursor, and the cursor before and after every iteration made so far
CursorInRange ==
    op = "ParseL" =>
        /\ j >= 0 /\ j <= Len(s)
        /\ \A k \in ParseEntries :
              /\ log[k].from >= 0
              /\ log[k].from <= log[k].to
              /\ log[k].to <= Len(s)
              /\ k > 1 => log[k].from = log[k - 1].to
              /\ k = Len(log) => log[k].to = j

\* a step of the running ParseL call
ParseLRuns == op = "ParseL" /\ pc \in {"loop", "final"}

\* C25: throughout a ParseL run the input cursor j satisfies 0 <= j <= len(s),
\* and no iteration moves it back, whether the directive read its field or not
C25_InputCursor ==
    /\ []CursorInRange
    /\ [][ParseLRuns => j' >= j]_vars

\* "%H%M" on "12": %M finds no characters and leaves the cursor at the end
C25_Witness ==
    /\ ParseDone
    /\ Len(log) >= 2
    /\ log[1].spec = "H" /\ log[1].ok /\ log[1].to = 2
    /\ log[2].spec = "M" /\ ~log[2].ok /\ log[2].from = 2 /\ log[2].to = 2
    /\ Len(s) = 2
    /\ j = 2

(***************************************************************************)
(* C26: %p without %I. The marker is matched and consumed, and the hour is *)
(* the one %H read, or the current moment's when the format has no %H: the *)
(* 12-hour adjustment of lines 254-264 is made only when %I was seen.      *)
(***************************************************************************)
\* the format has %p and no %I
MarkerWithoutI == EntriesOf("p") # {} /\ EntriesOf("I") = {}

\* the hour the last %H read, or the current moment's hour without %H
HourSet ==
    IF EntriesOf("H") = {} THEN base.hour
    ELSE ValueRead(CHOOSE k \in EntriesOf("H") : \A m \in EntriesOf("H") : m <= k)

\* C26 as stated: with %p and no %I in the format the hour of the returned
\* time is the value %H set, or the current moment's hour (and that even when
\* every numeric field is read from decimal digits). Refuted by "%H%p"
\* reading "24AM", which returns hour 0 of the next day.
C26_MarkerWithoutIReturnedHour ==
    (ParseDone /\ ret.kind = "time" /\ FieldsAreDigits /\ MarkerWithoutI) =>
        ret.time.hour = HourSet

\* C26 amended: with %p and no %I in the format the hour of the parse result
\* is the value %H set, or the current moment's hour, whatever the marker; the
\* returned time has that hour when it lies in 0..23 and the minute and the
\* second of the parse result lie in 0..59
C26_MarkerWithoutI ==
    (ParseDone /\ ret.kind = "time" /\ MarkerWithoutI) =>
        /\ result.hour = HourSet
        /\ (/\ result.hour \in 0..23
            /\ result.minute \in 0..59
            /\ result.second \in 0..59) => ret.time.hour = HourSet

\* "%H%p" on "12AM" returns hour 12
C26_Witness ==
    /\ ParseDone
    /\ format = <<"%", "H", "%", "p">>
    /\ s = <<"1", "2", "A", "M">>
    /\ log[2].spec = "p"
    /\ log[2].to = 4
    /\ ret.kind = "time"
    /\ ret.time.hour = 12

=============================================================================
